---- MODULE Spec2Model ----
(***************************************************************************)
(* Verification model of krish-suresh/invisible-map-generation.            *)
(*                                                                         *)
(* Each subsystem is modelled with its own specification:                  *)
(*   SpecListen  - the debounced firebase listener of src/GraphManager.py  *)
(*   SpecBuild   - the graph builder as_graph of src/convert_json.py       *)
(*   SpecCompare - partition / comparison of                               *)
(*                 src/map_processing/graph_manager.py                     *)
(*   SpecMap     - optimizer_to_map of graph_opt_utils.py / graph_utils.py *)
(*   SpecWeights - the Weights class of graph_opt_utils.py                 *)
(*   SpecSweep   - GraphManager._sweep_weights of graph_manager.py         *)
(*   SpecSum     - sum_optimized_edges_chi2 of graph_opt_utils.py          *)
(*   SpecOptimize - GraphManager.optimize_graph of graph_manager.py        *)
(*   SpecProcess - process_maps of graph_manager.py and GraphManager.py    *)
(*   SpecGenerate - GraphGenerator.__init__ of graph_generator.py          *)
(***************************************************************************)
EXTENDS Integers, Sequences, FiniteSets, TLC

(***************************************************************************)
(* Bounds of the model                                                     *)
(***************************************************************************)
\* the clock runs from 0 to MaxTime
MaxTime == 4
\* calls of _firebase_get_unprocessed_map (arrivals) in one run
MaxArrivals == 2
\* firebase_listen is called with max_wait in 1..MaxWaitArg
MaxWaitArg == 2
\* items of one bulk (dict) event
MaxBatch == 2
\* odometry frames of an observation record
MaxFrames == 3
\* tag sightings of an observation record
MaxTagSightings == 2
\* waypoint sightings of an observation record
MaxWaypointSightings == 2
\* tag and waypoint sightings of an observation record, together
MaxSightings == 3
\* odometry vertices of a graph handed to the partitioner
MaxOdom == 4
\* the solver reports a chi2 in 0..MaxChi2
MaxChi2 == 2
\* vertices of the optimizer handed to optimizer_to_map, uids 0..MaxMapVertices-1
MaxMapVertices == 3
\* pose_id metadata are in 0..MaxPoseId
MaxPoseId == 3
\* length of the parameter vector handed to weight_dict_from_array
MaxArrayLen == 7
\* calls of normalize_tag_and_odom_weights on one Weights object
MaxNormalize == 2
\* values of the `sweep` array handed to _sweep_weights
MaxSweep == 3
\* grid points of one sweep: len(sweep) ** dimensions
MaxGrid == 4
\* edges of the optimizer handed to sum_optimized_edges_chi2
MaxEdges == 3
\* cache entries that match the pattern handed to process_maps
MaxMatches == 3
\* GraphGenerator objects constructed in one run
MaxInstances == 4

VARIABLES
    \* ---- listener (src/GraphManager.py) ----
    now,            \* wall clock
    max_wait,       \* self._firebase_listen_max_wait
    callerPc,       \* position of the thread that called firebase_listen
    sem,            \* value of self._firebase_listen_sem
    timer_mutex,    \* value of self._timer_mutex
    timers,         \* every threading.Timer started so far; the last one is
                    \* self._listen_kill_timer
    cbPc,           \* position of the listener thread in the callback
    cbLeft,         \* items of the current event still to be handled
    nArr,           \* number of calls of _firebase_get_unprocessed_map
    lastArrival,    \* time of the latest such call (or of listen start)
    cached,         \* maps fetched and cached
    missing,        \* blobs that were not found
    \* ---- graph builder (src/convert_json.py) ----
    pose_data,      \* dct['pose_data']: the frame id of each pose, in order
    tag_data,       \* dct['tag_data']: [tag_id, frame] of each sighting
    location_data,  \* dct['location_data']: [name, frame] of each sighting
    buildPc,        \* "off", "input" (record decoded) or "done"
    resulting_graph,\* the graph as_graph returned
    \* ---- partition and comparison (src/map_processing/graph_manager.py) ----
    nOdom,          \* odometry vertices of the map's graph, chained 1..nOdom
    tagSeen,        \* tagSeen[i]: the tags with an edge from odometry vertex i
    entry,          \* the routine that runs: "compare_weights" or
                    \* "subgraph_pair" (subgraph_pair_optimize_and_get_chi2_diff)
    cmpPc,          \* position in that routine
    g1sg,           \* first subgraph (tags free)
    g2sg,           \* second subgraph (tags fixed)
    iter_weights,   \* index into _comparison_graph1_subgraph_weights
    chi2,           \* <<chi2 of g1sg, chi2 of g2sg>> of the latest optimizations
    result,         \* what the routine returned or printed last
    missing_vertex_count,
    deleted_vertex_count,
    \* ---- result map (optimizer_to_map of graph_opt_utils.py, graph_utils.py) ----
    mapVertices,    \* the `vertices` argument: uid -> [mode, pose_id]
    mapPc,          \* "off", "loop" or "done"
    visited,        \* uids the loop over optimizer.vertices() has handled
    locations,      \* the rows collected, each [uid, pose_id], then sorted
    \* ---- Weights (src/map_processing/graph_opt_utils.py) ----
    wEntry,         \* "legacy_from_array" or "Weights" (the constructor)
    array,          \* the parameter vector
    ctorArgs,       \* the keyword arguments of the constructor
    wPc,            \* "off", "input", "ready" or "raised"
    wdict,          \* the local dict `weights` of weight_dict_from_array
    wret,           \* the dict weight_dict_from_array returned
    wobj,           \* the Weights object
    normCount,      \* how often wobj has been normalized
    wError,         \* the exception of the latest call, or "none"
    \* ---- weight sweep (_sweep_weights of graph_manager.py) ----
    metric_info,    \* the type of the metric_info argument
    dimensions,     \* the `dimensions` argument
    sweep,          \* the `sweep` argument
    sweepPc,        \* "off", "input", "sweeping", "returned" or "raised"
    loopIdx,        \* loopIdx[k]: the position (from 1) of the `for weight in
                    \* sweep` loop of recursion level k, outermost first
    invoked,        \* the full_weights of the calls of the metric function
    metrics,        \* the metrics recorded so far, in the order of evaluation
    failed,         \* the grid points (numbered in the order of evaluation)
                    \* at which the metric function raised
    sweepError,     \* the exception that left _sweep_weights, or "none"
    \* ---- chi2 sum (sum_optimized_edges_chi2 of graph_opt_utils.py) ----
    optimizerEdges, \* optimizer.edges(): [type, chi2] of each edge
    sumPc,          \* "off", "loop", "returned" or "raised"
    edgeIdx,        \* edges the loop has handled
    total_chi2,     \* the local total_chi2
    sumResult,      \* what sum_optimized_edges_chi2 returned
    sumError,       \* the exception that left it, or "none"
    \* ---- optimize_graph (src/map_processing/graph_manager.py) ----
    obs_chi2_filter,\* optimization_config.obs_chi2_filter
    visualize,      \* the `visualize` argument
    ogPc,           \* the statement of optimize_graph that runs next
    calls,          \* the calls made so far, in order
    passes,         \* calls of graph.optimize_graph() so far
    passChi2,       \* passChi2[n]: the chi2 the n-th of them returned
    opt_chi2,       \* the local opt_chi2
    estimatesOf,    \* the pass whose estimates the vertices hold (0: none)
    ogResult,       \* what optimize_graph returned
    \* ---- process_maps (graph_manager.py and GraphManager.py) ----
    pmImpl,         \* the module whose process_maps runs
    pattern,        \* the `pattern` argument
    matching_maps,  \* the matches of the pattern: "map" or "dir" each
    compare,        \* the `compare` argument
    pmPc,           \* "off", "called", "loop" or "returned"
    pmIdx,          \* matches the loop has gone through
    handled,        \* <<i, routine>> for each match i given to a routine
    \* ---- GraphGenerator (src/map_processing/graph_generator.py) ----
    TAG_CORNERS_SIZE_2, \* the class attribute: the array of the corners of a
                        \* tag, held as the r with the corners at (+-r, +-r)
    generators      \* the instances constructed so far, in order

lvars == <<now, max_wait, callerPc, sem, timer_mutex, timers, cbPc, cbLeft,
           nArr, lastArrival, cached, missing>>

bvars == <<pose_data, tag_data, location_data, buildPc, resulting_graph>>

cvars == <<nOdom, tagSeen, entry, cmpPc, g1sg, g2sg, iter_weights, chi2,
           result, missing_vertex_count, deleted_vertex_count>>

mvars == <<mapVertices, mapPc, visited, locations>>

\* the subsystems added after the first three
wvars == <<wEntry, array, ctorArgs, wPc, wdict, wret, wobj, normCount, wError>>

svars == <<metric_info, dimensions, sweep, sweepPc, loopIdx, invoked,
           metrics, failed, sweepError>>

kvars == <<optimizerEdges, sumPc, edgeIdx, total_chi2, sumResult, sumError>>

ovars == <<obs_chi2_filter, visualize, ogPc, calls, passes, passChi2,
           opt_chi2, estimatesOf, ogResult>>

pvars == <<pmImpl, pattern, matching_maps, compare, pmPc, pmIdx, handled>>

gvars == <<TAG_CORNERS_SIZE_2, generators>>

yvars == <<ovars, pvars, gvars>>

xvars == <<mvars, wvars, svars, kvars, yvars>>

vars == <<lvars, bvars, cvars, xvars>>

\* what each subsystem leaves alone
notListen == <<bvars, cvars, xvars>>
notBuild == <<lvars, cvars, xvars>>
notCompare == <<lvars, bvars, xvars>>
notMap == <<lvars, bvars, cvars, wvars, svars, kvars, yvars>>
notWeights == <<lvars, bvars, cvars, mvars, svars, kvars, yvars>>
notSweep == <<lvars, bvars, cvars, mvars, wvars, kvars, yvars>>
notSum == <<lvars, bvars, cvars, mvars, wvars, svars, yvars>>
notOptimize == <<lvars, bvars, cvars, mvars, wvars, svars, kvars, pvars, gvars>>
notProcess == <<lvars, bvars, cvars, mvars, wvars, svars, kvars, ovars, gvars>>
notGenerate == <<lvars, bvars, cvars, mvars, wvars, svars, kvars, ovars, pvars>>

\* the other subsystems are not running
ListenOff ==
    /\ now = 0 /\ max_wait = 0 /\ callerPc = "off" /\ sem = 1
    /\ timer_mutex = 1 /\ timers = << >> /\ cbPc = "off" /\ cbLeft = 0
    /\ nArr = 0 /\ lastArrival = 0 /\ cached = 0 /\ missing = 0

EmptyGraph == [vertices |-> << >>, edges |-> << >>]

BuildOff ==
    /\ pose_data = << >> /\ tag_data = << >> /\ location_data = << >>
    /\ buildPc = "off" /\ resulting_graph = EmptyGraph

NoGraph == [odom |-> {}, tags |-> {}, edges |-> {}, est |-> << >>]
NoResult == [kind |-> "none", value |-> 0]

CompareOff ==
    /\ nOdom = 0 /\ tagSeen = << >> /\ entry = "off" /\ cmpPc = "off"
    /\ g1sg = NoGraph /\ g2sg = NoGraph /\ iter_weights = 0
    /\ chi2 = <<0, 0>> /\ result = NoResult
    /\ missing_vertex_count = 0 /\ deleted_vertex_count = 0

MapOff ==
    /\ mapVertices = << >> /\ mapPc = "off" /\ visited = {} /\ locations = << >>

WeightsOff ==
    /\ wEntry = "off" /\ array = << >> /\ ctorArgs = << >> /\ wPc = "off"
    /\ wdict = << >> /\ wret = << >> /\ wobj = << >> /\ normCount = 0
    /\ wError = "none"

SweepOff ==
    /\ metric_info = "off" /\ dimensions = 0 /\ sweep = << >>
    /\ sweepPc = "off" /\ loopIdx = << >> /\ invoked = << >>
    /\ metrics = << >> /\ failed = {}
    /\ sweepError = "none"

SumOff ==
    /\ optimizerEdges = << >> /\ sumPc = "off" /\ edgeIdx = 0
    /\ total_chi2 = 0 /\ sumResult = 0 /\ sumError = "none"

NoOptimizeResult == [opt_chi2 |-> 0, resulting_map |-> 0, prior_map |-> 0]

OptimizeOff ==
    /\ obs_chi2_filter = 0 /\ visualize = FALSE /\ ogPc = "off"
    /\ calls = << >> /\ passes = 0 /\ passChi2 = << >> /\ opt_chi2 = 0
    /\ estimatesOf = 0 /\ ogResult = NoOptimizeResult

ProcessOff ==
    /\ pmImpl = "off" /\ pattern = "" /\ matching_maps = << >>
    /\ compare = FALSE /\ pmPc = "off" /\ pmIdx = 0 /\ handled = << >>

GenerateOff ==
    /\ TAG_CORNERS_SIZE_2 = <<1, 1>> /\ generators = << >>

YOff == OptimizeOff /\ ProcessOff /\ GenerateOff

XOff == MapOff /\ WeightsOff /\ SweepOff /\ SumOff /\ YOff

(***************************************************************************)
(* Debounced listener: GraphManager.firebase_listen and the callback       *)
(***************************************************************************)

\* threading.Timer(interval, function): a timer thread waits on its
\* `finished` event for `interval`, then tests `finished.is_set()` and, when
\* it is not set, calls the function.  st is the position of that thread:
\*   "waiting"   in finished.wait(interval)
\*   "firing"    has read finished.is_set() = False, has not yet called
\*               self._firebase_listen_sem.release
\*   "fired"     has called release
\*   "cancelled" cancel() set `finished` while the thread was waiting
\* by is the number of the arrival that started it (0: firebase_listen).
Timer(interval, starter) ==
    [deadline |-> now + interval, st |-> "waiting", by |-> starter]

\* a cancel() that leaves the finished event unset
TimerCancelIgnored(t) == t

\* Timer.cancel(): sets the finished event; it stops only a timer that is
\* still in its waiting stage.
TimerCancel(t) ==
    IF t.st = "waiting" THEN [t EXCEPT !.st = "cancelled"] ELSE t

\* self._listen_kill_timer.cancel() on the timer currently referenced
CancelKillTimer ==
    [timers EXCEPT ![Len(timers)] = TimerCancel(timers[Len(timers)])]

InitListen ==
    /\ now = 0
    /\ max_wait = 0
    /\ callerPc = "idle"
    /\ sem = 1
    /\ timer_mutex = 1
    /\ timers = << >>
    /\ cbPc = "off"
    /\ cbLeft = 0
    /\ nArr = 0
    /\ lastArrival = 0
    /\ cached = 0
    /\ missing = 0
    /\ BuildOff
    /\ CompareOff
    /\ XOff

\* firebase_listen, lines 149-155: fresh semaphore and mutex, the first kill
\* timer is started, the listening thread is started and registers the
\* callback; the caller then blocks in acquire().
FirebaseListen(w) ==
    /\ callerPc = "idle"
    /\ max_wait' = w
    /\ sem' = 0
    /\ timer_mutex' = 1
    /\ timers' = Append(timers, Timer(w, 0))
    /\ lastArrival' = now
    /\ cbPc' = "idle"
    /\ callerPc' = "blocked"
    /\ UNCHANGED <<now, cbLeft, nArr, cached, missing, notListen>>

\* line 156: self._firebase_listen_sem.acquire()
SemAcquire ==
    /\ callerPc = "blocked"
    /\ sem > 0
    /\ sem' = sem - 1
    /\ callerPc' = "joining"
    /\ UNCHANGED <<now, max_wait, timer_mutex, timers, cbPc, cbLeft, nArr,
                   lastArrival, cached, missing, notListen>>

\* lines 157-158: thread_obj.join() and return.  The thread only registers
\* the callback (db.Reference.listen returns at once), so join() returns;
\* the registration is never closed.
ListenReturn ==
    /\ callerPc = "joining"
    /\ callerPc' = "returned"
    /\ UNCHANGED <<now, max_wait, sem, timer_mutex, timers, cbPc, cbLeft,
                   nArr, lastArrival, cached, missing, notListen>>

\* _df_listen_callback: an event carrying k maps (a str event: one map, a
\* dict event: one per item) is delivered on the listener thread.
DfListenCallback(k) ==
    /\ cbPc = "idle"
    /\ nArr + k <= MaxArrivals
    /\ cbLeft' = k
    /\ cbPc' = "acquire"
    /\ UNCHANGED <<now, max_wait, callerPc, sem, timer_mutex, timers, nArr,
                   lastArrival, cached, missing, notListen>>

\* _firebase_get_unprocessed_map is entered; line 363: _timer_mutex.acquire()
CbAcquire ==
    /\ cbPc = "acquire"
    /\ timer_mutex = 1
    /\ timer_mutex' = 0
    /\ nArr' = nArr + 1
    /\ lastArrival' = now
    /\ cbPc' = "cancel"
    /\ UNCHANGED <<now, max_wait, callerPc, sem, timers, cbLeft, cached,
                   missing, notListen>>

\* line 364: self._listen_kill_timer.cancel()
CbCancel ==
    /\ cbPc = "cancel"
    /\ timers' = CancelKillTimer
    /\ cbPc' = "start"
    /\ UNCHANGED <<now, max_wait, callerPc, sem, timer_mutex, cbLeft, nArr,
                   lastArrival, cached, missing, notListen>>

\* lines 365-366: a new Timer(max_wait, sem.release) is stored and started
CbStart ==
    /\ cbPc = "start"
    /\ timers' = Append(timers, Timer(max_wait, nArr))
    /\ cbPc' = "release"
    /\ UNCHANGED <<now, max_wait, callerPc, sem, timer_mutex, cbLeft, nArr,
                   lastArrival, cached, missing, notListen>>

\* line 367: self._timer_mutex.release()
CbRelease ==
    /\ cbPc = "release"
    /\ timer_mutex' = 1
    /\ cbPc' = "fetch"
    /\ UNCHANGED <<now, max_wait, callerPc, sem, timers, cbLeft, nArr,
                   lastArrival, cached, missing, notListen>>

\* lines 369-378: get_blob, then download and _cache_map, or the "missing"
\* message; the callback then goes on to the next item of the event.
CbFetch(found) ==
    /\ cbPc = "fetch"
    /\ cached' = IF found THEN cached + 1 ELSE cached
    /\ missing' = IF found THEN missing ELSE missing + 1
    /\ cbLeft' = cbLeft - 1
    /\ cbPc' = IF cbLeft - 1 > 0 THEN "acquire" ELSE "idle"
    /\ UNCHANGED <<now, max_wait, callerPc, sem, timer_mutex, timers, nArr,
                   lastArrival, notListen>>

\* The timer thread's wait times out and it reads finished.is_set() = False.
TimerExpire(i) ==
    /\ timers[i].st = "waiting"
    /\ now >= timers[i].deadline
    /\ timers' = [timers EXCEPT ![i].st = "firing"]
    /\ UNCHANGED <<now, max_wait, callerPc, sem, timer_mutex, cbPc, cbLeft,
                   nArr, lastArrival, cached, missing, notListen>>

\* The timer thread calls self._firebase_listen_sem.release.
TimerFire(i) ==
    /\ timers[i].st = "firing"
    /\ timers' = [timers EXCEPT ![i].st = "fired"]
    /\ sem' = sem + 1
    /\ UNCHANGED <<now, max_wait, callerPc, timer_mutex, cbPc, cbLeft, nArr,
                   lastArrival, cached, missing, notListen>>

\* time passes
Tick ==
    /\ now < MaxTime
    /\ now' = now + 1
    /\ UNCHANGED <<max_wait, callerPc, sem, timer_mutex, timers, cbPc,
                   cbLeft, nArr, lastArrival, cached, missing, notListen>>

NextListen ==
    \/ \E w \in 1..MaxWaitArg : FirebaseListen(w)
    \/ SemAcquire
    \/ ListenReturn
    \/ \E k \in 1..MaxBatch : DfListenCallback(k)
    \/ CbAcquire
    \/ CbCancel
    \/ CbStart
    \/ CbRelease
    \/ \E found \in BOOLEAN : CbFetch(found)
    \/ \E i \in DOMAIN timers : TimerExpire(i)
    \/ \E i \in DOMAIN timers : TimerFire(i)
    \/ Tick

SpecListen == InitListen /\ [][NextListen]_vars

\* the step in which a kill timer releases the gate
GateReleased == sem' = sem + 1

\* the timer that releases the gate in this step
ReleasingTimers ==
    {i \in DOMAIN timers : timers[i].st = "firing" /\ timers'[i].st = "fired"}

\* C1: the gate is released (and so the caller of firebase_listen let go)
\* only when at least max_wait has elapsed since the latest arrival callback
\* (or since listening started).
C1_DebounceSafety ==
    [][GateReleased => now - lastArrival >= max_wait]_vars

\* C2: the gate is released by the timer that the latest arrival started
\* (the listen-time timer only when nothing has arrived), never by the timer
\* of an earlier arrival or of listen time.
C2_ReleasedByLastTimer ==
    [][GateReleased => \A i \in ReleasingTimers : timers[i].by = nArr]_vars


(***************************************************************************)
(* Graph builder: as_graph of src/convert_json.py                          *)
(*                                                                         *)
(* Poses and measurements are kept symbolic: the estimate of a vertex and  *)
(* the measurement of an edge record which pose (index into pose_data,     *)
(* from 0) and which sighting (index into tag_data / location_data, from   *)
(* 0) they were computed from.                                             *)
(***************************************************************************)

\* the tag ids and waypoint names a record may use
TagIds == {5, 7}
WaypointNames == <<"door", "stairs">>   \* in lexicographic order

\* Python's None for previous_vertex
None == -1

\* Python truthiness of previous_vertex (None or an int uid)
Truthy(v) == v # None /\ v # 0

\* dictionary keys: numbers (frame ids) and strings (names) never compare
\* equal in Python
Num(x) == [kind |-> "num", v |-> x]
Str(x) == [kind |-> "str", v |-> x]

\* dict.get(key, []) of a dictionary whose keys are frame ids
DictGet(d, key) ==
    IF key.kind = "num" /\ key.v \in DOMAIN d THEN d[key.v] ELSE << >>

\* d[k] = val
DictSet(d, k, val) ==
    [x \in DOMAIN d \cup {k} |-> IF x = k THEN val ELSE d[x]]

RECURSIVE SortSet(_)
\* np.unique of a set of integers: ascending
SortSet(S) ==
    IF S = {} THEN << >>
    ELSE LET m == CHOOSE x \in S : \A y \in S : x <= y
         IN <<m>> \o SortSet(S \ {m})

\* index (from 0) of x in the sequence s
IndexOf(s, x) == (CHOOSE i \in DOMAIN s : s[i] = x) - 1

\* lines 71-73: unique_tag_ids and tag_vertex_id_by_tag_id
unique_tag_ids(td) == SortSet({td[i].tag_id : i \in DOMAIN td})
tag_vertex_id_by_tag_id(td, id) == IndexOf(unique_tag_ids(td), id)

RECURSIVE TagsByFrame(_, _, _)
\* lines 76-83: tag_vertex_id_and_index_by_frame_id, built over the
\* sightings k..Len(td) on top of d
TagsByFrame(td, k, d) ==
    IF k > Len(td) THEN d
    ELSE LET tag_frame == td[k].frame
             tag_vertex_id == tag_vertex_id_by_tag_id(td, td[k].tag_id)
             got == DictGet(d, Num(tag_frame))
         IN TagsByFrame(td, k + 1,
                DictSet(d, tag_frame, Append(got, <<tag_vertex_id, k - 1>>)))

\* lines 86-87: np.unique(waypoint_names), lexicographic
unique_waypoint_names(ld) ==
    SelectSeq(WaypointNames, LAMBDA n : \E i \in DOMAIN ld : ld[i].name = n)

\* lines 95-96: waypoint_vertex_id_by_name
waypoint_vertex_id_by_name(td, ld, n) ==
    Len(unique_tag_ids(td)) + IndexOf(unique_waypoint_names(ld), n)

\* line 97: waypoint_name_by_vertex_id
waypoint_name_by_vertex_id(td, ld, uid) ==
    unique_waypoint_names(ld)[uid - Len(unique_tag_ids(td)) + 1]

\* lines 103-104: the list the sighting is appended to is looked up under
\* the waypoint's name, in a dictionary keyed by frame id
WaypointGetKey(waypoint_name, waypoint_frame) == Str(waypoint_name)

RECURSIVE WaypointsByFrame(_, _, _, _)
\* lines 99-106: waypoint_vertex_id_and_index_by_frame_id
WaypointsByFrame(td, ld, k, d) ==
    IF k > Len(ld) THEN d
    ELSE LET waypoint_frame == ld[k].frame
             waypoint_vertex_id == waypoint_vertex_id_by_name(td, ld, ld[k].name)
             got == DictGet(d, WaypointGetKey(ld[k].name, waypoint_frame))
         IN WaypointsByFrame(td, ld, k + 1,
                DictSet(d, waypoint_frame,
                        Append(got, <<waypoint_vertex_id, k - 1>>)))

\* graph.Vertex(mode, estimate, fixed) with its meta_data['name']
Vertex(mode, estimate, fixed, name) ==
    [mode |-> mode, estimate |-> estimate, fixed |-> fixed, name |-> name]

\* graph.Edge(startuid, enduid, information, measurement)
Edge(startuid, enduid, measurement) ==
    [startuid |-> startuid, enduid |-> enduid, measurement |-> measurement]

\* symbolic estimates and measurements
Est(kind, pose, sighting) == [kind |-> kind, pose |-> pose, sighting |-> sighting]

\* a builder that fixes every odometry vertex
OdomFixedAlways(first_odom_processed) == TRUE

\* line 126: fixed = not first_odom_processed
OdomFixed(first_odom_processed) == ~first_odom_processed

\* line 191: the dummy vertex is fixed
DummyFixed == TRUE

\* a builder that recreates the TAG vertex at every sighting
TagVertexAlwaysNew(tag_vertex_id, counted_tag_vertex_ids) == TRUE

\* line 134: the TAG vertex is created only when its uid was not counted yet
TagVertexIsNew(tag_vertex_id, counted_tag_vertex_ids) ==
    tag_vertex_id \notin counted_tag_vertex_ids

\* line 176: if previous_vertex:
HasPreviousVertex(previous_vertex) == Truthy(previous_vertex)

RECURSIVE TagLoop(_, _, _, _, _)
\* lines 133-152: the sightings lst[k..] of frame i, odometry vertex uid
TagLoop(s, lst, k, i, uid) ==
    IF k > Len(lst) THEN s
    ELSE LET tag_vertex_id == lst[k][1]
             tag_index == lst[k][2]
             isNew == TagVertexIsNew(tag_vertex_id, s.counted_tag_vertex_ids)
             s1 == IF isNew
                   THEN [s EXCEPT
                          !.vertices = DictSet(@, tag_vertex_id,
                              Vertex("TAG", Est("pose*tag", i, tag_index), FALSE, "")),
                          !.counted_tag_vertex_ids = @ \cup {tag_vertex_id}]
                   ELSE s
             s2 == [s1 EXCEPT
                      !.edges = Append(@, Edge(uid, tag_vertex_id,
                                               Est("tag", -1, tag_index))),
                      !.num_tag_edges = @ + 1]
         IN TagLoop(s2, lst, k + 1, i, uid)

RECURSIVE WaypointLoop(_, _, _, _, _, _, _)
\* lines 155-174
WaypointLoop(s, lst, k, i, uid, td, ld) ==
    IF k > Len(lst) THEN s
    ELSE LET waypoint_vertex_id == lst[k][1]
             waypoint_index == lst[k][2]
             isNew == waypoint_vertex_id \notin s.counted_waypoint_vertex_ids
             s1 == IF isNew
                   THEN [s EXCEPT
                          !.vertices = DictSet(@, waypoint_vertex_id,
                              Vertex("WAYPOINT", Est("pose*waypoint", i, waypoint_index),
                                     FALSE,
                                     waypoint_name_by_vertex_id(td, ld, waypoint_vertex_id))),
                          !.counted_waypoint_vertex_ids = @ \cup {waypoint_vertex_id}]
                   ELSE s
             s2 == [s1 EXCEPT
                      !.edges = Append(@, Edge(uid, waypoint_vertex_id,
                                               Est("waypoint", -1, waypoint_index)))]
         IN WaypointLoop(s2, lst, k + 1, i, uid, td, ld)

\* lines 121-205: the body of the loop over the odometry frames, for the
\* frame with index i (from 0)
FrameBody(s, i, pd, td, ld, tagsBy, waypointsBy) ==
    LET odom_frame == pd[i + 1]
        current_odom_vertex_uid == s.vertex_counter
        s1 == [s EXCEPT
                 !.vertices = DictSet(@, current_odom_vertex_uid,
                     Vertex("ODOMETRY", Est("pose", i, -1),
                            OdomFixed(s.first_odom_processed), "")),
                 !.first_odom_processed = TRUE,
                 !.vertex_counter = @ + 1]
        s2 == TagLoop(s1, DictGet(tagsBy, Num(odom_frame)), 1, i,
                      current_odom_vertex_uid)
        s3 == WaypointLoop(s2, DictGet(waypointsBy, Num(odom_frame)), 1, i,
                           current_odom_vertex_uid, td, ld)
        s4 == IF HasPreviousVertex(s3.previous_vertex)
              THEN [s3 EXCEPT !.edges = Append(@,
                        Edge(s3.previous_vertex, current_odom_vertex_uid,
                             Est("inv(prev)*pose", i, -1)))]
              ELSE s3
        dummy_node_uid == s4.vertex_counter
        s5 == [s4 EXCEPT
                 !.vertices = DictSet(@, dummy_node_uid,
                     Vertex("DUMMY", Est("rotation", i, -1), DummyFixed, "")),
                 !.vertex_counter = @ + 1,
                 !.edges = Append(@, Edge(current_odom_vertex_uid, dummy_node_uid,
                                          Est("identity", -1, -1))),
                 !.previous_vertex = current_odom_vertex_uid]
    IN s5

RECURSIVE FrameLoop(_, _, _, _, _, _, _)
FrameLoop(s, i, pd, td, ld, tagsBy, waypointsBy) ==
    IF i >= Len(pd) THEN s
    ELSE FrameLoop(FrameBody(s, i, pd, td, ld, tagsBy, waypointsBy), i + 1,
                   pd, td, ld, tagsBy, waypointsBy)

\* as_graph(dct), lines 40-208
as_graph(pd, td, ld) ==
    LET tagsBy == TagsByFrame(td, 1, << >>)
        waypointsBy == WaypointsByFrame(td, ld, 1, << >>)
        s0 == [vertices |-> << >>,
               edges |-> << >>,
               vertex_counter |-> Len(unique_tag_ids(td))
                                  + Len(unique_waypoint_names(ld)),
               previous_vertex |-> None,
               counted_tag_vertex_ids |-> {},
               counted_waypoint_vertex_ids |-> {},
               first_odom_processed |-> FALSE,
               num_tag_edges |-> 0]
        s == FrameLoop(s0, 0, pd, td, ld, tagsBy, waypointsBy)
    IN [vertices |-> s.vertices, edges |-> s.edges]

\* sequences over S of length at most n
SeqUpTo(S, n) == UNION {[1..k -> S] : k \in 0..n}

\* The decoded observation records: n poses with distinct frame ids, and
\* sightings that refer to frames of the record.
InitBuild ==
    /\ ListenOff
    /\ CompareOff
    /\ XOff
    /\ \E n \in 0..MaxFrames :
         /\ pose_data = [i \in 1..n |-> i]
         /\ tag_data \in SeqUpTo([tag_id : TagIds, frame : 1..n], MaxTagSightings)
         /\ location_data \in SeqUpTo([name : {WaypointNames[j] : j \in DOMAIN WaypointNames},
                                       frame : 1..n], MaxWaypointSightings)
         /\ Len(tag_data) + Len(location_data) <= MaxSightings
    /\ buildPc = "input"
    /\ resulting_graph = EmptyGraph

\* the call as_graph(dct)
AsGraph ==
    /\ buildPc = "input"
    /\ resulting_graph' = as_graph(pose_data, tag_data, location_data)
    /\ buildPc' = "done"
    /\ UNCHANGED <<pose_data, tag_data, location_data, notBuild>>

NextBuild == AsGraph

SpecBuild == InitBuild /\ [][NextBuild]_vars


(***************************************************************************)
(* Properties of the graph as_graph returns                                *)
(***************************************************************************)
Built == buildPc = "done"
G == resulting_graph
NumPoses == Len(pose_data)

VerticesOfMode(m) == {u \in DOMAIN G.vertices : G.vertices[u].mode = m}
ModeOf(u) == IF u \in DOMAIN G.vertices THEN G.vertices[u].mode ELSE "absent"

\* the ODOMETRY vertices made from pose i (from 0)
OdomOfPose(i) ==
    {u \in VerticesOfMode("ODOMETRY") : G.vertices[u].estimate.pose = i}
\* the pose index of frame id f
PoseOfFrame(f) == (CHOOSE i \in DOMAIN pose_data : pose_data[i] = f) - 1

EdgeIds == DOMAIN G.edges
ChainEdges == {e \in EdgeIds : ModeOf(G.edges[e].startuid) = "ODOMETRY"
                               /\ ModeOf(G.edges[e].enduid) = "ODOMETRY"}
DummyEdges == {e \in EdgeIds : ModeOf(G.edges[e].startuid) = "ODOMETRY"
                               /\ ModeOf(G.edges[e].enduid) = "DUMMY"}
EdgesInto(u) == {e \in EdgeIds : G.edges[e].enduid = u}
\* the edges that carry the measurement of sighting idx (from 0)
EdgesOfSighting(kind, idx) ==
    {e \in EdgeIds : G.edges[e].measurement.kind = kind
                     /\ G.edges[e].measurement.sighting = idx}

SightedTags == {tag_data[k].tag_id : k \in DOMAIN tag_data}
SightedNames == {location_data[k].name : k \in DOMAIN location_data}
SightingsOfTag(t) == {k \in DOMAIN tag_data : tag_data[k].tag_id = t}
SightingsOfName(n) == {k \in DOMAIN location_data : location_data[k].name = n}

\* C3: a record with N >= 1 frames gives exactly N-1 chain edges, one from
\* each frame's ODOMETRY vertex to the next frame's, and N edges from an
\* ODOMETRY vertex to its DUMMY vertex.
C3_ChainAndDummyEdges ==
    (Built /\ NumPoses >= 1) =>
        /\ Cardinality(ChainEdges) = NumPoses - 1
        /\ \A i \in 0..(NumPoses - 2) :
             \E e \in ChainEdges :
                /\ G.edges[e].startuid \in OdomOfPose(i)
                /\ G.edges[e].enduid \in OdomOfPose(i + 1)
        /\ Cardinality(DummyEdges) = NumPoses

\* C4: one ODOMETRY and one DUMMY vertex per pose, one TAG vertex per
\* distinct tag id, one WAYPOINT vertex per distinct waypoint name.
C4_VertexCounts ==
    Built =>
        /\ Cardinality(VerticesOfMode("ODOMETRY")) = NumPoses
        /\ Cardinality(VerticesOfMode("DUMMY")) = NumPoses
        /\ Cardinality(VerticesOfMode("TAG")) = Cardinality(SightedTags)
        /\ Cardinality(VerticesOfMode("WAYPOINT")) = Cardinality(SightedNames)

\* the TAG vertices the edges of tag t's sightings end in
TagVerticesOf(t) ==
    {G.edges[e].enduid : e \in UNION {EdgesOfSighting("tag", k - 1) : k \in SightingsOfTag(t)}}

\* the first sighting of tag t in frame order: the earliest pose with a
\* sighting of t, and the first sighting of t listed for that pose
FirstPoseOfTag(t) ==
    CHOOSE i \in {PoseOfFrame(tag_data[k].frame) : k \in SightingsOfTag(t)} :
        \A k \in SightingsOfTag(t) : i <= PoseOfFrame(tag_data[k].frame)
FirstSightingOfTag(t) ==
    CHOOSE k \in SightingsOfTag(t) :
        /\ PoseOfFrame(tag_data[k].frame) = FirstPoseOfTag(t)
        /\ \A j \in SightingsOfTag(t) :
              PoseOfFrame(tag_data[j].frame) = FirstPoseOfTag(t) => k <= j

\* C5: every sighted tag has exactly one TAG vertex, made from its first
\* sighting in frame order, and every sighting of it adds exactly one edge,
\* from the ODOMETRY vertex of the sighting's frame to that vertex.
C5_TagVertexOnceEdgePerSighting ==
    Built =>
        /\ Cardinality(VerticesOfMode("TAG")) = Cardinality(SightedTags)
        /\ \A t \in SightedTags :
             /\ Cardinality(TagVerticesOf(t)) = 1
             /\ \A v \in TagVerticesOf(t) :
                  /\ ModeOf(v) = "TAG"
                  /\ G.vertices[v].estimate =
                        Est("pose*tag", FirstPoseOfTag(t), FirstSightingOfTag(t) - 1)
                  /\ Cardinality(EdgesInto(v)) = Cardinality(SightingsOfTag(t))
             /\ \A k \in SightingsOfTag(t) :
                  /\ Cardinality(EdgesOfSighting("tag", k - 1)) = 1
                  /\ \A e \in EdgesOfSighting("tag", k - 1) :
                        G.edges[e].startuid \in OdomOfPose(PoseOfFrame(tag_data[k].frame))
        /\ \A t1, t2 \in SightedTags :
             t1 # t2 => TagVerticesOf(t1) \cap TagVerticesOf(t2) = {}

\* a tag sighted in two different frames, later frame listed first, has
\* one vertex and two edges
C5_Witness ==
    /\ Built
    /\ \E t \in SightedTags :
         /\ \E j, k \in SightingsOfTag(t) :
               j < k /\ PoseOfFrame(tag_data[j].frame) > PoseOfFrame(tag_data[k].frame)
         /\ \E v \in VerticesOfMode("TAG") :
               TagVerticesOf(t) = {v} /\ Cardinality(EdgesInto(v)) = 2

\* the WAYPOINT vertices that carry name n
WaypointVerticesOf(n) ==
    {u \in VerticesOfMode("WAYPOINT") : G.vertices[u].name = n}

\* C6: every waypoint sighting adds exactly one edge from the ODOMETRY
\* vertex of its frame to the waypoint's vertex, also when several sightings
\* share a frame; there is one WAYPOINT vertex per distinct name and it
\* carries that name.
C6_WaypointEdgePerSighting ==
    Built =>
        /\ \A n \in SightedNames : Cardinality(WaypointVerticesOf(n)) = 1
        /\ \A k \in DOMAIN location_data :
             /\ Cardinality(EdgesOfSighting("waypoint", k - 1)) = 1
             /\ \A e \in EdgesOfSighting("waypoint", k - 1) :
                  /\ G.edges[e].startuid
                        \in OdomOfPose(PoseOfFrame(location_data[k].frame))
                  /\ G.edges[e].enduid \in WaypointVerticesOf(location_data[k].name)

\* C7: the ODOMETRY vertex of the first frame is fixed, no other ODOMETRY
\* vertex is, and every DUMMY vertex is fixed.
C7_FixedFlags ==
    Built =>
        /\ \A u \in VerticesOfMode("ODOMETRY") :
              G.vertices[u].fixed <=> (G.vertices[u].estimate.pose = 0)
        /\ \A u \in VerticesOfMode("DUMMY") : G.vertices[u].fixed

\* a graph of at least two frames: a fixed first ODOMETRY vertex, a free
\* later one and a fixed DUMMY vertex
C7_Witness ==
    /\ Built
    /\ NumPoses >= 2
    /\ \E u, v \in VerticesOfMode("ODOMETRY") :
          G.vertices[u].fixed /\ ~G.vertices[v].fixed
    /\ \E d \in VerticesOfMode("DUMMY") : G.vertices[d].fixed


(***************************************************************************)
(* Partition and comparison: GraphManager.create_graphs_for_chi2_comparison*)
(* compare_weights and subgraph_pair_optimize_and_get_chi2_diff of         *)
(* src/map_processing/graph_manager.py.                                    *)
(*                                                                         *)
(* A graph is [odom, tags, edges, est]: its ODOMETRY vertices (named by    *)
(* their position in the odometry chain), its TAG vertices, its tag edges  *)
(* <<odometry vertex, tag>> and the estimate of every TAG vertex.  The     *)
(* odometry edges join consecutive ODOMETRY vertices.  The solver is a     *)
(* black box: an optimization yields some chi2 in 0..MaxChi2 and new       *)
(* estimates for the vertices that are not fixed.                          *)
(***************************************************************************)

\* GraphManager._comparison_graph1_subgraph_weights
comparison_graph1_subgraph_weights ==
    <<"SENSIBLE_DEFAULT_WEIGHTS", "TRUST_ODOM", "TRUST_TAGS", "GENETIC_RESULTS",
      "BEST_SWEEP">>

\* symbolic estimates of TAG vertices: as built, or as optimized in g1sg by
\* the n-th optimization of g1sg
BuiltEstimate == [by |-> "as_graph", n |-> 0]
OptimizedEstimate(n) == [by |-> "optimize g1sg", n |-> n]

Abs(x) == IF x < 0 THEN -x ELSE x

\* Graph.as_graph(map_dct): the graph of the map
MapGraph ==
    LET ed == {<<i, t>> : i \in 1..nOdom, t \in TagIds} \cap
              {e \in (1..nOdom) \X TagIds : e[2] \in tagSeen[e[1]]}
        tg == {e[2] : e \in ed}
    IN [odom |-> 1..nOdom, tags |-> tg, edges |-> ed,
        est |-> [t \in tg |-> BuiltEstimate]]

\* Graph.get_ordered_odometry_edges()[0]: the odometry edges in chain order
get_ordered_odometry_edges ==
    [k \in 1..(nOdom - 1) |-> [startuid |-> k, enduid |-> k + 1]]

\* Graph.get_subgraph(start_vertex_uid, end_vertex_uid): the ODOMETRY
\* vertices from start to end along the chain, and every TAG vertex and
\* edge incident to one of them
get_subgraph(g, start_vertex_uid, end_vertex_uid) ==
    LET od == {v \in g.odom : start_vertex_uid <= v /\ v <= end_vertex_uid}
        ed == {e \in g.edges : e[1] \in od}
        tg == {e[2] : e \in ed}
    IN [odom |-> od, tags |-> tg, edges |-> ed, est |-> [t \in tg |-> g.est[t]]]

\* Graph.get_tag_verts()
get_tag_verts(g) == g.tags

\* Graph.delete_tag_vertex(uid): the vertex and its incident edges go
delete_tag_vertex(g, uid) ==
    [odom |-> g.odom,
     tags |-> g.tags \ {uid},
     edges |-> {e \in g.edges : e[2] # uid},
     est |-> [t \in g.tags \ {uid} |-> g.est[t]]]

RECURSIVE DeleteAll(_, _)
DeleteAll(g, uids) ==
    IF uids = {} THEN g
    ELSE LET u == CHOOSE x \in uids : TRUE
         IN DeleteAll(delete_tag_vertex(g, u), uids \ {u})

\* a transfer that copies nothing
transfer_nothing(g1, g2) == g2

\* Graph.transfer_vertex_estimates(g1, g2, filter_by={TAG}), and the loop of
\* src/GraphManager.py, lines 316-318: g2 after it
transfer_vertex_estimates(g1, g2) ==
    [g2 EXCEPT !.est = [t \in g2.tags |->
                           IF t \in g1.tags THEN g1.est[t] ELSE g2.est[t]]]

\* lines 436-440: the four boundary uids; ordered_odom_edges[len // 2] and
\* ordered_odom_edges[-1] of a Python list (indices from 0)
start_uid(ordered) == ordered[1].startuid
middle_uid_lower(ordered) == ordered[(Len(ordered) \div 2) + 1].startuid
middle_uid_upper(ordered) == ordered[(Len(ordered) \div 2) + 1].enduid
end_uid(ordered) == ordered[Len(ordered)].enduid

\* ordered_odom_edges[0] of an empty list raises IndexError
IndexErrorRaised(ordered) == Len(ordered) = 0

InitCompare ==
    /\ ListenOff
    /\ BuildOff
    /\ XOff
    /\ nOdom \in 0..MaxOdom
    /\ tagSeen \in [1..nOdom -> SUBSET TagIds]
    /\ entry \in {"compare_weights", "subgraph_pair"}
    /\ cmpPc = "input"
    /\ g1sg = NoGraph /\ g2sg = NoGraph
    /\ iter_weights = 0
    /\ chi2 = <<0, 0>>
    /\ result = NoResult
    /\ missing_vertex_count = 0
    /\ deleted_vertex_count = 0

\* create_graphs_for_chi2_comparison, lines 433-447 (called at line 212 and
\* at line 559)
CreateGraphsForChi2Comparison ==
    /\ cmpPc = "input"
    /\ LET ordered_odom_edges == get_ordered_odometry_edges
       IN IF IndexErrorRaised(ordered_odom_edges)
          THEN /\ cmpPc' = "raised"
               /\ result' = [kind |-> "IndexError", value |-> 0]
               /\ UNCHANGED <<g1sg, g2sg, iter_weights>>
          ELSE /\ g1sg' = get_subgraph(MapGraph, start_uid(ordered_odom_edges),
                                       middle_uid_lower(ordered_odom_edges))
               /\ g2sg' = get_subgraph(MapGraph, middle_uid_upper(ordered_odom_edges),
                                       end_uid(ordered_odom_edges))
               /\ cmpPc' = IF entry = "compare_weights" THEN "check" ELSE "optimize_g1"
               /\ iter_weights' = IF entry = "compare_weights" THEN 0 ELSE 1
               /\ UNCHANGED result
    /\ UNCHANGED <<nOdom, tagSeen, entry, chi2, missing_vertex_count,
                   deleted_vertex_count, notCompare>>

\* compare_weights, lines 214-232: count the tags of g1sg missing in g2sg,
\* delete the tags of g2sg missing in g1sg
ConsistencyCheck ==
    /\ cmpPc = "check"
    /\ LET missingTags == {t \in get_tag_verts(g1sg) : t \notin g2sg.tags}
           deleted == {t \in get_tag_verts(g2sg) : t \notin g1sg.tags}
       IN /\ missing_vertex_count' = Cardinality(missingTags)
          /\ deleted_vertex_count' = Cardinality(deleted)
          /\ g2sg' = DeleteAll(g2sg, deleted)
    /\ iter_weights' = 1
    /\ cmpPc' = "optimize_g1"
    /\ UNCHANGED <<nOdom, tagSeen, entry, g1sg, chi2, result, notCompare>>

\* lines 252-253 and line 565: optimize_graph(g1sg); its tags are free, so
\* they get the optimizer's estimates
OptimizeG1(c) ==
    /\ cmpPc = "optimize_g1"
    /\ chi2' = <<c, chi2[2]>>
    /\ g1sg' = [g1sg EXCEPT !.est = [t \in g1sg.tags |-> OptimizedEstimate(iter_weights)]]
    /\ cmpPc' = "transfer"
    /\ UNCHANGED <<nOdom, tagSeen, entry, g2sg, iter_weights, result,
                   missing_vertex_count, deleted_vertex_count, notCompare>>

\* line 263 and line 566
TransferVertexEstimates ==
    /\ cmpPc = "transfer"
    /\ g2sg' = transfer_vertex_estimates(g1sg, g2sg)
    /\ cmpPc' = "optimize_g2"
    /\ UNCHANGED <<nOdom, tagSeen, entry, g1sg, iter_weights, chi2, result,
                   missing_vertex_count, deleted_vertex_count, notCompare>>

\* graph_opt_utils (src/map_processing/graph_opt_utils.py) defines
\* sum_optimized_edges_chi2 and no sum_optimizer_edges_chi2, the name that
\* optimize_and_give_chi2_metric looks up at line 524
HasSumOptimizerEdgesChi2 == FALSE

\* optimize_and_give_chi2_metric(graph), lines 518-524, after the solver
\* reported chi2 c for the graph: the sum of the edges' chi2 of the optimized
\* graph, when the lookup of the summing function succeeds
optimize_and_give_chi2_metric(c) ==
    IF HasSumOptimizerEdgesChi2
    THEN [kind |-> "returned", value |-> c]
    ELSE [kind |-> "AttributeError", value |-> 0]

\* subgraph_pair_optimize_and_get_chi2_diff, line 567: what it returns
\* when the two optimizations reported c1 and c2
subgraph_pair_result(c1, c2) == optimize_and_give_chi2_metric(c2)

\* compare_weights, lines 288-291: the "Abs(delta chi2)" it reports
compare_weights_result(g1sg_chi_sqr, g2sg_chi_sqr) ==
    [kind |-> "printed", value |-> Abs(g1sg_chi_sqr - g2sg_chi_sqr)]

\* lines 278-291 (compare_weights: optimize g2sg, report, next weight set)
\* and line 567 (subgraph_pair...: optimize g2sg and return the metric);
\* the tags of g2sg are fixed and keep their estimates
OptimizeG2(c) ==
    /\ cmpPc = "optimize_g2"
    /\ chi2' = <<chi2[1], c>>
    /\ IF entry = "compare_weights"
       THEN /\ result' = compare_weights_result(chi2[1], c)
            /\ IF iter_weights < Len(comparison_graph1_subgraph_weights)
               THEN iter_weights' = iter_weights + 1 /\ cmpPc' = "optimize_g1"
               ELSE iter_weights' = iter_weights /\ cmpPc' = "done"
       ELSE /\ result' = subgraph_pair_result(chi2[1], c)
            /\ iter_weights' = iter_weights
            /\ cmpPc' = IF result'.kind = "returned" THEN "done" ELSE "raised"
    /\ UNCHANGED <<nOdom, tagSeen, entry, g1sg, g2sg, missing_vertex_count,
                   deleted_vertex_count, notCompare>>

NextCompare ==
    \/ CreateGraphsForChi2Comparison
    \/ ConsistencyCheck
    \/ \E c \in 0..MaxChi2 : OptimizeG1(c)
    \/ TransferVertexEstimates
    \/ \E c \in 0..MaxChi2 : OptimizeG2(c)

SpecCompare == InitCompare /\ [][NextCompare]_vars

\* g2sg has been optimized at least once
G2Optimized == result.kind \in {"printed", "returned", "AttributeError"}

\* C8: the comparison metric, as returned by
\* subgraph_pair_optimize_and_get_chi2_diff and as printed by
\* compare_weights, is |chi2(g1) - chi2(g2)|.
C8_MetricIsAbsChi2Difference ==
    G2Optimized =>
        /\ result.kind \in {"printed", "returned"}
        /\ result.value = Abs(chi2[1] - chi2[2])

\* C9: for every graph the partition yields two subgraphs with disjoint
\* ODOMETRY vertex sets whose union is the whole chain, also for a chain of
\* one edge or none.
C9_PartitionDisjointCover ==
    cmpPc # "input" =>
        /\ result.kind # "IndexError"
        /\ g1sg.odom \cap g2sg.odom = {}
        /\ g1sg.odom \cup g2sg.odom = 1..nOdom

\* C10: whenever g2 is (about to be or has been) optimized, every TAG
\* vertex of g2 is a vertex of g1.
C10_G2TagsWithinG1 ==
    (cmpPc = "optimize_g2" \/ G2Optimized) => g2sg.tags \subseteq g1sg.tags

(***************************************************************************)
(* Result map: optimizer_to_map of src/map_processing/graph_opt_utils.py   *)
(* (and of src/graph_utils.py).  Only the 'locations' rows are modelled;   *)
(* a row keeps its last two columns, the uid and the pose_id.              *)
(***************************************************************************)

\* line 176: np.concatenate([pose, [i], [vertices[i].meta_data['pose_id']]])
LocationRow(i, verts) == [uid |-> i, pose_id |-> verts[i].pose_id]

\* line 176: the uid column of a row (index 7)
UidColumn(row) == row.uid

\* line 191: locations_arr[:, -1], the column the rows are sorted by
LastColumn(row) == row.pose_id

\* the row of rows (a set of rows with distinct keys) with the least key
MinRow(rows) == CHOOSE r \in rows : \A q \in rows : LastColumn(r) <= LastColumn(q)

RECURSIVE ArgSort(_)
\* line 191: locations_arr[locations_arr[:, -1].argsort()]
ArgSort(rows) ==
    IF rows = {} THEN << >>
    ELSE <<MinRow(rows)>> \o ArgSort(rows \ {MinRow(rows)})

\* the elements of a sequence
Range(sq) == {sq[k] : k \in DOMAIN sq}

\* The optimizer's vertices: uids 0..n-1, each ODOMETRY (with a pose_id of
\* its own) or TAG (pose_id unused).
InitMap ==
    /\ ListenOff
    /\ BuildOff
    /\ CompareOff
    /\ WeightsOff
    /\ SweepOff
    /\ SumOff
    /\ YOff
    /\ \E n \in 0..MaxMapVertices :
         /\ mapVertices \in [0..(n - 1) -> [mode : {"ODOMETRY", "TAG"},
                                            pose_id : 0..MaxPoseId]]
         /\ \A u, v \in 0..(n - 1) :
               /\ mapVertices[u].mode = "TAG" => mapVertices[u].pose_id = 0
               /\ (u # v /\ mapVertices[u].mode = "ODOMETRY"
                         /\ mapVertices[v].mode = "ODOMETRY")
                      => mapVertices[u].pose_id # mapVertices[v].pose_id
    /\ mapPc = "loop"
    /\ visited = {}
    /\ locations = << >>

\* lines 157-189: one pass of `for i in optimizer.vertices()`; the order in
\* which the dict yields the uids is not fixed
VisitVertex(i) ==
    /\ mapPc = "loop"
    /\ i \in DOMAIN mapVertices \ visited
    /\ visited' = visited \cup {i}
    /\ locations' = IF mapVertices[i].mode = "ODOMETRY"
                    THEN Append(locations, LocationRow(i, mapVertices))
                    ELSE locations
    /\ UNCHANGED <<mapVertices, mapPc, notMap>>

\* lines 190-196: the rows are sorted and returned
SortLocations ==
    /\ mapPc = "loop"
    /\ visited = DOMAIN mapVertices
    /\ locations' = ArgSort(Range(locations))
    /\ mapPc' = "done"
    /\ UNCHANGED <<mapVertices, visited, notMap>>

NextMap ==
    \/ \E i \in 0..(MaxMapVertices - 1) : VisitVertex(i)
    \/ SortLocations

SpecMap == InitMap /\ [][NextMap]_vars

\* C11: the 'locations' rows returned by optimizer_to_map are in ascending
\* order of vertex uid, whatever the order of the pose_id metadata.
C11_LocationsSortedByUid ==
    mapPc = "done" =>
        \A j, k \in DOMAIN locations :
            j < k => UidColumn(locations[j]) < UidColumn(locations[k])

(***************************************************************************)
(* Weights of src/map_processing/graph_opt_utils.py.                       *)
(*                                                                         *)
(* Floats are modelled as exact reals.  A scalar is a surd                 *)
(* (num/den)*sqrt(rad), which is closed under the products, quotients and  *)
(* Euclidean norms the code computes; a weight vector is a surd k times a  *)
(* vector dir of integers, kept in a canonical form so that two vectors    *)
(* are equal exactly when their representations are.                       *)
(***************************************************************************)

RECURSIVE Gcd(_, _)
Gcd(a, b) == IF b = 0 THEN a ELSE Gcd(b, a % b)

Sign(x) == IF x < 0 THEN -1 ELSE IF x = 0 THEN 0 ELSE 1

\* the greatest element of a finite non-empty set of integers
MaxOf(S) == CHOOSE k \in S : \A j \in S : j <= k

\* the greatest k with k*k dividing n (n >= 1)
SquarePart(n) == MaxOf({k \in 1..n : k * k <= n /\ n % (k * k) = 0})

\* the rational p/q (q # 0) in lowest terms, as <<numerator, denominator>>
Rat(p, q) ==
    LET g == Gcd(Abs(p), Abs(q))
    IN <<Sign(q) * (p \div g), Abs(q) \div g>>

RatLess(a, b) == a[1] * b[2] < b[1] * a[2]

\* the real (num/den)*sqrt(rad) in normal form: lowest terms, rad squarefree
Surd(num, den, rad) ==
    IF num = 0 \/ rad = 0 THEN [num |-> 0, den |-> 1, rad |-> 1]
    ELSE LET s == SquarePart(rad)
             r == Rat(num * s, den)
         IN [num |-> r[1], den |-> r[2], rad |-> rad \div (s * s)]

SurdOne == Surd(1, 1, 1)
SurdOfRat(r) == Surd(r[1], r[2], 1)
SurdIsZero(a) == a.num = 0

\* a * b
SurdMul(a, b) == Surd(a.num * b.num, a.den * b.den, a.rad * b.rad)

\* 1 / a (a # 0)
SurdInv(a) == Surd(Sign(a.num) * a.den, Abs(a.num) * a.rad, a.rad)

RECURSIVE SeqGcd(_)
\* the gcd of the absolute values of a sequence of integers
SeqGcd(d) == IF d = << >> THEN 0 ELSE Gcd(Abs(Head(d)), SeqGcd(Tail(d)))

RECURSIVE SumSquares(_)
SumSquares(d) == IF d = << >> THEN 0 ELSE Head(d) * Head(d) + SumSquares(Tail(d))

\* the vector k * dir in canonical form
MkVec(k, dir) ==
    LET g == SeqGcd(dir)
    IN IF g = 0 \/ SurdIsZero(k)
       THEN [k |-> SurdOne, dir |-> [i \in DOMAIN dir |-> 0]]
       ELSE [k |-> SurdMul(k, Surd(g, 1, 1)),
             dir |-> [i \in DOMAIN dir |-> dir[i] \div g]]

\* np.array(list of numbers)
NpArray(d) == MkVec(SurdOne, d)

\* np.ones(n)
NpOnes(n) == NpArray([i \in 1..n |-> 1])

\* the number of elements of an array
Size(v) == Len(v.dir)

\* np.linalg.norm(v): |k| * sqrt(sum of the squares of dir)
Norm(v) == Surd(Abs(v.k.num), v.k.den, v.k.rad * SumSquares(v.dir))

\* v *= s
Scale(v, s) == MkVec(SurdMul(v.k, s), v.dir)

\* np.array(None), a 0-d object array: it holds no number
NotANumber == [num |-> 0, den |-> 0, rad |-> 0]
NoneArray == [k |-> NotANumber, dir |-> << >>]
IsNoneArray(v) == v.k.den = 0

\* an optional array argument: None, or an array
NoArg == [given |-> FALSE, val |-> NoneArray]
Arg(v) == [given |-> TRUE, val |-> v]

\* np.array(arg), line 24 included when arg is None
NpArrayOf(arg) == IF arg.given THEN arg.val ELSE NoneArray

\* a number with its Python type; v is the rational value
PyFloat(r) == [type |-> "float", v |-> r]
PyInt(n) == [type |-> "int", v |-> <<n, 1>>]
NpFloat64(r) == [type |-> "np.float64", v |-> r]
NpInt64(n) == [type |-> "np.int64", v |-> <<n, 1>>]
NdArray(r) == [type |-> "ndarray", v |-> r]     \* v is element [0]
PyNone == [type |-> "None", v |-> <<0, 1>>]

\* isinstance(x, float): Python floats and np.float64, which subclasses float
IsInstanceFloat(x) == x.type \in {"float", "np.float64"}
\* isinstance(x, np.ndarray)
IsInstanceNdarray(x) == x.type = "ndarray"

\* lines 29, 31: the lower limit 0.00001, a Python float
OdomTagRatioMin == PyFloat(<<1, 100000>>)

\* Python's max(a, b): b when b > a, otherwise a
PyMax(a, b) == IF RatLess(a.v, b.v) THEN b ELSE a

\* Weights.__init__, lines 28-33: the stored odom_tag_ratio
OdomTagRatio(odom_tag_ratio) ==
    IF IsInstanceFloat(odom_tag_ratio)
    THEN PyMax(OdomTagRatioMin, odom_tag_ratio)
    ELSE IF IsInstanceNdarray(odom_tag_ratio)
         THEN PyMax(OdomTagRatioMin, NpFloat64(odom_tag_ratio.v))
         ELSE PyInt(1)

\* Weights.__init__, lines 21-33
WeightsInit(odometry, tag, tag_sba, dummy, odom_tag_ratio) ==
    [dummy |-> IF dummy.given THEN NpArrayOf(dummy) ELSE NpOnes(3),
     odometry |-> IF odometry.given THEN NpArrayOf(odometry) ELSE NpOnes(6),
     tag |-> IF tag.given THEN NpArrayOf(tag) ELSE NpOnes(6),
     tag_sba |-> IF tag.given THEN NpArrayOf(tag_sba) ELSE NpOnes(2),
     odom_tag_ratio |-> OdomTagRatio(odom_tag_ratio)]

\* Python slices of a list (indices from 0): a[:n], a[n:], n copies of x
Upto(a, n) == SubSeq(a, 1, IF n < Len(a) THEN n ELSE Len(a))
From(a, n) == SubSeq(a, n + 1, Len(a))
Times(x, n) == [i \in 1..n |-> x]

\* Weights.legacy_from_dict(dct), line 46: cls(**dct)
legacy_from_dict(dct) ==
    WeightsInit(Arg(dct.odometry), Arg(dct.tag), Arg(dct.tag_sba),
                Arg(dct.dummy), dct.odom_tag_ratio)

\* Weights.to_dict, lines 49-55
to_dict(w) ==
    [dummy |-> w.dummy, odometry |-> w.odometry, tag |-> w.tag,
     tag_sba |-> w.tag_sba, odom_tag_ratio |-> w.odom_tag_ratio]

\* weight_dict_from_array, lines 62-68: the defaults
DefaultWeightDict ==
    [dummy |-> NpArray(<<-1, 100, -1>>),
     odometry |-> NpOnes(6),
     tag |-> NpOnes(6),
     tag_sba |-> NpOnes(2),
     odom_tag_ratio |-> PyInt(1)]

\* an element of the parameter vector (a float), index from 0
Elem(arr, i) == PyFloat(<<arr[i + 1], 1>>)

\* the branch of weight_dict_from_array taken for length 6 and 7
HalfLen3Branch(half_len) == half_len = 3

\* weight_dict_from_array, lines 70-108: the local dict `weights` when line
\* 110 is reached, or the exception of line 108
Expand(arr) ==
    LET length == Len(arr)
        half_len == length \div 2
        has_ratio == length % 2 = 1
        a(i) == arr[i + 1]
        last == Elem(arr, length - 1)
        weights == DefaultWeightDict
        ok(d) == [raised |-> FALSE, weights |-> d]
    IN IF length = 1
       THEN ok([weights EXCEPT !.odom_tag_ratio = Elem(arr, 0)])
       ELSE IF length = 2
       THEN ok([weights EXCEPT
                  !.odometry = NpArray(Times(a(0), 3) \o Times(1, 3)),
                  !.tag = NpArray(Times(a(0), 3) \o Times(1, 3)),
                  !.tag_sba = NpArray(<<a(0), 1>>),
                  !.odom_tag_ratio = Elem(arr, 1)])
       ELSE IF length = 3
       THEN ok([weights EXCEPT
                  !.odometry = NpArray(Times(a(0), 3) \o Times(1, 3)),
                  !.tag = NpArray(Times(a(1), 3) \o Times(1, 3)),
                  !.tag_sba = NpArray(<<a(1), 1>>),
                  !.odom_tag_ratio = Elem(arr, 2)])
       ELSE IF half_len = 2
       THEN ok([weights EXCEPT
                  !.odometry = NpArray(Times(a(0), 3) \o Times(a(1), 3)),
                  !.tag = NpArray(Times(a(2), 3) \o Times(a(3), 3)),
                  !.tag_sba = NpArray(From(arr, 2)),
                  !.odom_tag_ratio = IF has_ratio THEN last ELSE PyInt(1)])
       ELSE IF HalfLen3Branch(half_len)
       THEN ok([weights EXCEPT
                  !.odometry = NpArray(Upto(arr, 5)),
                  !.tag_sba = NpArray(<<a(5)>>),
                  !.odom_tag_ratio = IF has_ratio THEN last ELSE PyInt(1)])
       ELSE IF length = 4
       THEN ok([weights EXCEPT
                  !.odometry = NpArray(Upto(arr, 6)),
                  !.tag_sba = NpArray(From(arr, 6)),
                  !.odom_tag_ratio = IF has_ratio THEN last ELSE PyInt(1)])
       ELSE IF length = 5
       THEN ok([weights EXCEPT
                  !.odometry = NpArray(Upto(arr, 5)),
                  !.tag = NpArray(From(arr, 5)),
                  !.odom_tag_ratio = IF has_ratio THEN last ELSE PyInt(1)])
       ELSE IF length = 6
       THEN ok([weights EXCEPT
                  !.odometry = NpArray(Upto(arr, 6)),
                  !.tag = NpArray(From(arr, 6)),
                  !.odom_tag_ratio = IF has_ratio THEN last ELSE PyInt(1)])
       ELSE [raised |-> TRUE, weights |-> weights]

\* line 127: the constant of the SBA weighting
SbaScale == 1464

\* a normalization whose odometry factor has the opposite sign
OdomFactorNegated(odom_tag_ratio, odom_mag) ==
    SurdMul(Surd(-1, 1, 1),
            SurdMul(SurdOfRat(odom_tag_ratio.v), SurdInv(odom_mag)))

\* line 120: the factor self.odom_tag_ratio / odom_mag
OdomFactor(odom_tag_ratio, odom_mag) ==
    SurdMul(SurdOfRat(odom_tag_ratio.v), SurdInv(odom_mag))

\* lines 118-119, 125-126, 130-131: a zero magnitude is replaced by 1
NonZero(mag) == IF SurdIsZero(mag) THEN SurdOne ELSE mag

\* normalize_tag_and_odom_weights, lines 117-132: the object after the call,
\* and whether the call raised (np.linalg.norm of an array holding None)
normalize_tag_and_odom_weights(w) ==
    LET odom_mag == NonZero(Norm(w.odometry))
        w1 == [w EXCEPT !.odometry =
                 Scale(w.odometry, OdomFactor(w.odom_tag_ratio, odom_mag))]
    IN IF IsNoneArray(w.tag_sba)
       THEN [raised |-> TRUE, w |-> w1]
       ELSE LET sba_mag == NonZero(Norm(w1.tag_sba))
                w2 == [w1 EXCEPT !.tag_sba =
                         Scale(w1.tag_sba,
                               SurdInv(SurdMul(sba_mag, Surd(SbaScale, 1, 1))))]
                tag_mag == NonZero(Norm(w2.tag))
                w3 == [w2 EXCEPT !.tag = Scale(w2.tag, SurdInv(tag_mag))]
            IN [raised |-> FALSE, w |-> w3]

\* the values (floats) of the elements of a parameter vector
ArrayValues == {0, 1, 2}

\* the arguments a Weights object is constructed from directly
OdometryArgs ==
    {NoArg, Arg(NpOnes(6)), Arg(NpArray(<<0, 0, 0, 0, 0, 0>>)),
     Arg(NpArray(<<3, 4, 0, 0, 0, 1>>))}
TagArgs == {NoArg, Arg(NpOnes(6)), Arg(NpArray(<<0, 0, 0, 0, 0, 0>>))}
TagSbaArgs == {NoArg, Arg(NpArray(<<0, 0>>)), Arg(NpArray(<<3, 4>>))}
DummyArgs == {NoArg, Arg(NpOnes(3))}
RatioArgs ==
    {PyNone, PyFloat(<<2, 1>>), PyFloat(<<1, 1000000>>), PyFloat(<<0, 1>>),
     PyFloat(<<-1, 1>>), PyInt(2), PyInt(0), NpFloat64(<<1, 2>>), NpInt64(3),
     NdArray(<<3, 1>>), NdArray(<<0, 1>>)}

NoCtorArgs ==
    [odometry |-> NoArg, tag |-> NoArg, tag_sba |-> NoArg, dummy |-> NoArg,
     odom_tag_ratio |-> PyNone]

\* Weights()
DefaultWeights == WeightsInit(NoArg, NoArg, NoArg, NoArg, PyNone)

\* Either Weights.legacy_from_array(array) is called on a parameter vector,
\* or a Weights object is constructed from keyword arguments.
InitWeights ==
    /\ ListenOff
    /\ BuildOff
    /\ CompareOff
    /\ MapOff
    /\ SweepOff
    /\ SumOff
    /\ YOff
    /\ wEntry \in {"legacy_from_array", "Weights"}
    /\ IF wEntry = "legacy_from_array"
       THEN /\ array \in SeqUpTo(ArrayValues, MaxArrayLen)
            /\ ctorArgs = NoCtorArgs
       ELSE /\ array = << >>
            /\ ctorArgs \in [odometry : OdometryArgs, tag : TagArgs,
                             tag_sba : TagSbaArgs, dummy : DummyArgs,
                             odom_tag_ratio : RatioArgs]
    /\ wPc = "input"
    /\ wdict = DefaultWeightDict
    /\ wret = DefaultWeightDict
    /\ wobj = DefaultWeights
    /\ normCount = 0
    /\ wError = "none"

\* Weights.legacy_from_array(array), line 42: weight_dict_from_array (lines
\* 62-112: expansion, construction, normalization, to_dict), and the Weights
\* object made from the returned dict
LegacyFromArray ==
    /\ wPc = "input"
    /\ wEntry = "legacy_from_array"
    /\ LET e == Expand(array)
           w == legacy_from_dict(e.weights)
           n == normalize_tag_and_odom_weights(w)
       IN IF e.raised
          THEN /\ wError' = "Exception"
               /\ wPc' = "raised"
               /\ UNCHANGED <<wdict, wret, wobj, normCount>>
          ELSE /\ wdict' = e.weights
               /\ wret' = to_dict(n.w)
               /\ wobj' = legacy_from_dict(to_dict(n.w))
               /\ normCount' = 1
               /\ wError' = "none"
               /\ wPc' = "ready"
    /\ UNCHANGED <<wEntry, array, ctorArgs, notWeights>>

\* Weights(odometry=..., tag=..., tag_sba=..., dummy=..., odom_tag_ratio=...)
WeightsConstruct ==
    /\ wPc = "input"
    /\ wEntry = "Weights"
    /\ wobj' = WeightsInit(ctorArgs.odometry, ctorArgs.tag, ctorArgs.tag_sba,
                           ctorArgs.dummy, ctorArgs.odom_tag_ratio)
    /\ wPc' = "ready"
    /\ UNCHANGED <<wEntry, array, ctorArgs, wdict, wret, normCount, wError,
                   notWeights>>

\* a call of wobj.normalize_tag_and_odom_weights()
NormalizeTagAndOdomWeights ==
    /\ wPc = "ready"
    /\ normCount < MaxNormalize
    /\ LET n == normalize_tag_and_odom_weights(wobj)
       IN /\ wobj' = n.w
          /\ wError' = IF n.raised THEN "TypeError" ELSE "none"
    /\ normCount' = normCount + 1
    /\ UNCHANGED <<wEntry, array, ctorArgs, wPc, wdict, wret, notWeights>>

NextWeights ==
    \/ LegacyFromArray
    \/ WeightsConstruct
    \/ NormalizeTagAndOdomWeights

SpecWeights == InitWeights /\ [][NextWeights]_vars

\* the parameter-vector lengths the specification supports
SupportedLengths == 1..6

\* legacy_from_array has returned or raised
Expanded == wEntry = "legacy_from_array" /\ wPc \in {"ready", "raised"}

\* C12: weight_dict_from_array succeeds for the lengths 1..6 and raises for
\* every other length.
C12_UnsupportedLengthRaises ==
    Expanded => (wPc = "ready" <=> Len(array) \in SupportedLengths)

\* the lengths whose last element is the ratio (comments of lines 74-99)
HasTrailingRatio(length) == length \in {1, 2, 3, 5}

\* the weight components of a weight dict
Components(d) == <<d.odometry, d.tag, d.tag_sba, d.dummy>>

\* C13: for every supported length the returned Weights has odometry of
\* length 6, tag of length 6, tag_sba of length 2 and dummy of length 3, and
\* a trailing ratio element is no element of a component: the components do
\* not change when only that element changes.
C13_ComponentLengths ==
    (Expanded /\ wPc = "ready" /\ Len(array) \in SupportedLengths) =>
        /\ Size(wret.odometry) = 6
        /\ Size(wret.tag) = 6
        /\ Size(wret.tag_sba) = 2
        /\ Size(wret.dummy) = 3
        /\ HasTrailingRatio(Len(array)) =>
              \A x \in ArrayValues :
                  Components(Expand([array EXCEPT ![Len(array)] = x]).weights)
                      = Components(wdict)

\* a Weights object has been constructed from keyword arguments
Constructed == wEntry = "Weights" /\ wPc = "ready"

\* C14: a supplied odom_tag_ratio r, whatever its Python type, is stored as
\* max(1e-5, r), and every stored ratio is at least 1e-5.
C14_RatioClamped ==
    /\ (Constructed /\ ctorArgs.odom_tag_ratio.type # "None") =>
          wobj.odom_tag_ratio.v =
              PyMax(OdomTagRatioMin, ctorArgs.odom_tag_ratio).v
    /\ wPc = "ready" => ~RatLess(wobj.odom_tag_ratio.v, OdomTagRatioMin.v)

\* C15: for a vector [r] the expansion sets odom_tag_ratio to r and leaves
\* odometry, tag, tag_sba and dummy at all ones, before normalization.
C15_LengthOneDefaults ==
    (Expanded /\ wPc = "ready" /\ Len(array) = 1) =>
        /\ wdict.odom_tag_ratio.v = <<array[1], 1>>
        /\ wdict.odometry = NpOnes(6)
        /\ wdict.tag = NpOnes(6)
        /\ wdict.tag_sba = NpOnes(2)
        /\ wdict.dummy = NpOnes(3)

\* a call of normalize_tag_and_odom_weights on an object that has been
\* normalized before
Renormalized == normCount >= 1 /\ normCount' = normCount + 1

MetricInfoTypes == {"None", "tuple", "ndarray", "other"}

\* the `dimensions` argument
Dimensions == {1, 2}

\* what a call of metric_func(full_weights, graph, metric_info) does
MetricOutcomes == {"returns", "ValueError", "Exception"}

\* line 395: the metric recorded when ValueError was caught
FailedMetric == -1

RECURSIVE Pow(_, _)
Pow(b, e) == IF e = 0 THEN 1 ELSE b * Pow(b, e - 1)

\* the number of grid points: one per value of sweep and dimension
GridPoints == Pow(Len(sweep), dimensions)

\* lines 391, 407, 414: np.append(_cur_weights, weight) at every level
FullWeightsPrepended(idx) ==
    [k \in DOMAIN idx |-> sweep[idx[Len(idx) + 1 - k]]]

\* lines 391, 407, 414: full_weights at the innermost level, each level
\* having appended the weight its loop is at
FullWeights(idx) == [k \in DOMAIN idx |-> sweep[idx[k]]]

RECURSIVE NextIteration(_, _)
\* the loop of recursion level `level` goes on to its next weight; when it
\* has none left the call returns (lines 399, 417) and the loop of the
\* level above goes on, which enters a new call at this level (lines 405,
\* 412) whose loop starts at the first weight
NextIteration(idx, level) ==
    IF idx[level] < Len(sweep) \/ level = 1
    THEN [idx EXCEPT ![level] = @ + 1]
    ELSE NextIteration([idx EXCEPT ![level] = 1], level - 1)

InitSweep ==
    /\ ListenOff
    /\ BuildOff
    /\ CompareOff
    /\ MapOff
    /\ WeightsOff
    /\ SumOff
    /\ YOff
    /\ metric_info \in MetricInfoTypes
    /\ dimensions \in Dimensions
    /\ \E n \in 0..MaxSweep : sweep = [i \in 1..n |-> i]
    /\ GridPoints <= MaxGrid
    /\ sweepPc = "input"
    /\ loopIdx = [k \in 1..dimensions |-> 1]
    /\ invoked = << >>
    /\ metrics = << >>
    /\ failed = {}
    /\ sweepError = "none"

\* _sweep_weights is called, lines 379-389: the metric function is chosen by
\* the type of metric_info, or an Exception is raised
SweepWeights ==
    /\ sweepPc = "input"
    /\ IF metric_info = "other"
       THEN /\ sweepPc' = "raised"
            /\ sweepError' = "Exception"
       ELSE /\ sweepPc' = "sweeping"
            /\ sweepError' = "none"
    /\ UNCHANGED <<metric_info, dimensions, sweep, loopIdx, invoked, metrics,
                   failed, notSweep>>

\* lines 390-398, one iteration of the loop at the innermost dimension: the
\* metric function is called for the next grid point; ValueError is caught
\* and -1 recorded instead of a metric, any other exception leaves
\* _sweep_weights at every level of the recursion
MetricFunc(outcome, metric) ==
    /\ sweepPc = "sweeping"
    /\ loopIdx[1] <= Len(sweep)
    /\ invoked' = Append(invoked, FullWeights(loopIdx))
    /\ LET point == Len(invoked) + 1
       IN IF outcome = "returns"
          THEN /\ metrics' = Append(metrics, metric)
               /\ loopIdx' = NextIteration(loopIdx, dimensions)
               /\ UNCHANGED <<failed, sweepPc, sweepError>>
          ELSE IF outcome = "ValueError"
          THEN /\ metrics' = Append(metrics, FailedMetric)
               /\ loopIdx' = NextIteration(loopIdx, dimensions)
               /\ failed' = failed \cup {point}
               /\ UNCHANGED <<sweepPc, sweepError>>
          ELSE /\ failed' = failed \cup {point}
               /\ sweepPc' = "raised"
               /\ sweepError' = outcome
               /\ UNCHANGED <<metrics, loopIdx>>
    /\ UNCHANGED <<metric_info, dimensions, sweep, notSweep>>

\* lines 399, 417: the loop of the outermost level has no weight left,
\* metrics is returned
SweepReturn ==
    /\ sweepPc = "sweeping"
    /\ loopIdx[1] > Len(sweep)
    /\ sweepPc' = "returned"
    /\ UNCHANGED <<metric_info, dimensions, sweep, loopIdx, invoked, metrics,
                   failed, sweepError, notSweep>>

NextSweep ==
    \/ SweepWeights
    \/ \E outcome \in MetricOutcomes, metric \in 0..MaxChi2 :
           MetricFunc(outcome, metric)
    \/ SweepReturn

SpecSweep == InitSweep /\ [][NextSweep]_vars

\* the thread that runs _sweep_weights keeps running
SpecSweepFair == SpecSweep /\ WF_vars(NextSweep)

\* C17: an error raised by the optimization or the metric at a grid point
\* leaves _sweep_weights and stops the sweep: no metric is recorded for the
\* failed grid point and no later grid point is evaluated.
C17_FailurePropagates ==
    \A point \in failed :
        /\ sweepPc = "raised"
        /\ Len(metrics) < point

(***************************************************************************)
(* Chi2 sum: get_chi2_of_edge and sum_optimized_edges_chi2 of              *)
(* src/map_processing/graph_opt_utils.py.                                  *)
(*                                                                         *)
(* An edge is [type, chi2]: its g2o class and the value that the chi2      *)
(* expression of its class (lines 267, 270, 287) evaluates to, which is    *)
(* NaN when an estimate, the measurement or the information holds a NaN.   *)
(***************************************************************************)

\* the classes get_chi2_of_edge tells apart; "other" is any other class
HandledEdgeTypes == {"EdgeProjectPSI2UV", "EdgeSE3Expmap", "EdgeSE3"}
EdgeTypes == HandledEdgeTypes \cup {"other"}

\* float('nan')
NaN == -1
\* math.isnan
IsNan(x) == x = NaN

\* the chi2 values of an edge
Chi2Values == {NaN, 0, 1}

\* a + b on floats: NaN when one of them is
FloatAdd(a, b) == IF IsNan(a) \/ IsNan(b) THEN NaN ELSE a + b

\* get_chi2_of_edge, lines 260-289
get_chi2_of_edge(edge) ==
    IF edge.type = "EdgeProjectPSI2UV"
    THEN [raised |-> FALSE, chi2 |-> edge.chi2]
    ELSE IF edge.type = "EdgeSE3Expmap"
    THEN IF IsNan(edge.chi2)
         THEN [raised |-> TRUE, chi2 |-> NaN]
         ELSE [raised |-> FALSE, chi2 |-> edge.chi2]
    ELSE IF edge.type = "EdgeSE3"
    THEN [raised |-> FALSE, chi2 |-> edge.chi2]
    ELSE [raised |-> TRUE, chi2 |-> NaN]

InitSum ==
    /\ ListenOff
    /\ BuildOff
    /\ CompareOff
    /\ MapOff
    /\ WeightsOff
    /\ SweepOff
    /\ YOff
    /\ optimizerEdges \in SeqUpTo([type : EdgeTypes, chi2 : Chi2Values],
                                  MaxEdges)
    /\ sumPc = "loop"
    /\ edgeIdx = 0
    /\ total_chi2 = 0
    /\ sumResult = 0
    /\ sumError = "none"

\* sum_optimized_edges_chi2, lines 303-304: one iteration of the loop
SumEdge ==
    /\ sumPc = "loop"
    /\ edgeIdx < Len(optimizerEdges)
    /\ LET r == get_chi2_of_edge(optimizerEdges[edgeIdx + 1])
       IN IF r.raised
          THEN /\ sumPc' = "raised"
               /\ sumError' = "Exception"
               /\ UNCHANGED <<edgeIdx, total_chi2>>
          ELSE /\ total_chi2' = FloatAdd(total_chi2, r.chi2)
               /\ edgeIdx' = edgeIdx + 1
               /\ UNCHANGED <<sumPc, sumError>>
    /\ UNCHANGED <<optimizerEdges, sumResult, notSum>>

\* lines 306-309: the total is returned
SumReturn ==
    /\ sumPc = "loop"
    /\ edgeIdx = Len(optimizerEdges)
    /\ sumResult' = total_chi2
    /\ sumPc' = "returned"
    /\ UNCHANGED <<optimizerEdges, edgeIdx, total_chi2, sumError, notSum>>

NextSum ==
    \/ SumEdge
    \/ SumReturn

SpecSum == InitSum /\ [][NextSum]_vars

\* the edges of a handled class whose chi2 is NaN
NanEdges ==
    {i \in DOMAIN optimizerEdges :
        /\ optimizerEdges[i].type \in HandledEdgeTypes
        /\ IsNan(optimizerEdges[i].chi2)}

\* C18: when an edge of a handled class (EdgeSE3Expmap, EdgeSE3,
\* EdgeProjectPSI2UV) has a NaN chi2, sum_optimized_edges_chi2 raises and
\* returns no total.
C18_NanChi2Raises == NanEdges # {} => sumPc # "returned"

(***************************************************************************)
(* Properties of the listener after the gate was released                  *)
(***************************************************************************)

\* firebase_listen has returned: the listener is DONE
Done == callerPc = "returned"

\* C19: once the gate has been released and firebase_listen has returned,
\* no arrival is fetched or cached, no kill timer is started and the gate is
\* not released again.
C19_DoneIsTerminal ==
    [][Done => /\ cached' = cached
               /\ missing' = missing
               /\ Len(timers') = Len(timers)
               /\ sem' = sem]_vars

\* an arrived item is being handled by _firebase_get_unprocessed_map
InFlight == cbPc \in {"cancel", "start", "release", "fetch"}

\* a kill timer that has been started and neither cancelled nor run out
PendingTimers == {i \in DOMAIN timers : timers[i].st = "waiting"}

\* C20: the fresh kill timer is started only after the arrived item has
\* been fetched and cached, so no kill timer is pending during the fetch,
\* and the gate is not released while an arrived item is being handled.
C20_TimerRestartedAfterProcessing ==
    [][/\ cbPc' = "fetch" => PendingTimers' = {}
       /\ GateReleased => ~InFlight]_vars

(***************************************************************************)
(* Properties of the kill timers                                           *)
(***************************************************************************)

\* cancel() has been called on timer i by an arrival: the arrival is about
\* to start the replacement (line 365), or has started it
CancelledByArrival(i) ==
    \/ i < Len(timers)
    \/ i = Len(timers) /\ cbPc = "start"

\* C21: in every interleaving of the timer threads and the arrival callback,
\* a kill timer that an arrival has cancelled, or is replacing, does not
\* release the gate afterwards.
C21_CancelledTimerNeverReleases ==
    [][\A i \in ReleasingTimers : ~CancelledByArrival(i)]_vars

(***************************************************************************)
(* Optimization: GraphManager.optimize_graph of                            *)
(* src/map_processing/graph_manager.py.                                    *)
(*                                                                         *)
(* The methods of Graph and the solver are a black box: a call of          *)
(* graph.optimize_graph() is a pass of the solver, it returns some chi2 in *)
(* 0..MaxChi2 and leaves graph.optimized_graph in the state of that pass.  *)
(* A result map is represented by the pass whose solver state it was       *)
(* extracted from (0: graph.unoptimized_graph).                            *)
(***************************************************************************)

\* the values of optimization_config.obs_chi2_filter (-1 is the default)
ObsChi2Filters == {-1, 0, 1}

\* a test that lets a filter of 0 through
FilterAppliesFromZero(filter) == filter >= 0

\* line 483: the filter and the second pass are run
FilterApplies(filter) == filter > 0

InitOptimize ==
    /\ ListenOff
    /\ BuildOff
    /\ CompareOff
    /\ MapOff
    /\ WeightsOff
    /\ SweepOff
    /\ SumOff
    /\ ProcessOff
    /\ GenerateOff
    /\ obs_chi2_filter \in ObsChi2Filters
    /\ visualize \in BOOLEAN
    /\ ogPc = "set_weights"
    /\ calls = << >>
    /\ passes = 0
    /\ passChi2 = << >>
    /\ opt_chi2 = 0
    /\ estimatesOf = 0
    /\ ogResult = NoOptimizeResult

\* lines 477-478
SetWeights ==
    /\ ogPc = "set_weights"
    /\ calls' = Append(calls, "set_weights")
    /\ ogPc' = "update_edge_information"
    /\ UNCHANGED <<obs_chi2_filter, visualize, passes, passChi2, opt_chi2,
                   estimatesOf, ogResult, notOptimize>>

\* line 479
UpdateEdgeInformation ==
    /\ ogPc = "update_edge_information"
    /\ calls' = Append(calls, "update_edge_information")
    /\ ogPc' = "generate_unoptimized_graph"
    /\ UNCHANGED <<obs_chi2_filter, visualize, passes, passChi2, opt_chi2,
                   estimatesOf, ogResult, notOptimize>>

\* line 480
GenerateUnoptimizedGraph ==
    /\ ogPc = "generate_unoptimized_graph"
    /\ calls' = Append(calls, "generate_unoptimized_graph")
    /\ ogPc' = "optimize_graph"
    /\ UNCHANGED <<obs_chi2_filter, visualize, passes, passChi2, opt_chi2,
                   estimatesOf, ogResult, notOptimize>>

\* lines 482-483: opt_chi2 = graph.optimize_graph(), and the test of the filter
OptimizeGraph(c) ==
    /\ ogPc = "optimize_graph"
    /\ calls' = Append(calls, "optimize_graph")
    /\ passes' = passes + 1
    /\ passChi2' = Append(passChi2, c)
    /\ opt_chi2' = c
    /\ ogPc' = IF FilterApplies(obs_chi2_filter)
               THEN "filter" ELSE "update_vertices_estimates"
    /\ UNCHANGED <<obs_chi2_filter, visualize, estimatesOf, ogResult,
                   notOptimize>>

\* line 484
FilterOutHighChi2ObservationEdges ==
    /\ ogPc = "filter"
    /\ calls' = Append(calls, "filter_out_high_chi2_observation_edges")
    /\ ogPc' = "reoptimize"
    /\ UNCHANGED <<obs_chi2_filter, visualize, passes, passChi2, opt_chi2,
                   estimatesOf, ogResult, notOptimize>>

\* line 485: graph.optimize_graph(), its value is not kept
Reoptimize(c) ==
    /\ ogPc = "reoptimize"
    /\ calls' = Append(calls, "optimize_graph")
    /\ passes' = passes + 1
    /\ passChi2' = Append(passChi2, c)
    /\ ogPc' = "update_vertices_estimates"
    /\ UNCHANGED <<obs_chi2_filter, visualize, opt_chi2, estimatesOf,
                   ogResult, notOptimize>>

\* line 488: the vertices get the estimates of graph.optimized_graph
UpdateVerticesEstimates ==
    /\ ogPc = "update_vertices_estimates"
    /\ calls' = Append(calls, "update_vertices_estimates")
    /\ estimatesOf' = passes
    /\ ogPc' = "prior_map"
    /\ UNCHANGED <<obs_chi2_filter, visualize, passes, passChi2, opt_chi2,
                   ogResult, notOptimize>>

\* line 489: prior_map = optimizer_to_map_chi2(graph, graph.unoptimized_graph)
PriorMap ==
    /\ ogPc = "prior_map"
    /\ calls' = Append(calls, "optimizer_to_map_chi2(unoptimized_graph)")
    /\ ogResult' = [ogResult EXCEPT !.prior_map = 0]
    /\ ogPc' = "resulting_map"
    /\ UNCHANGED <<obs_chi2_filter, visualize, passes, passChi2, opt_chi2,
                   estimatesOf, notOptimize>>

\* lines 490-493: resulting_map = optimizer_to_map_chi2(graph,
\* graph.optimized_graph), and the test of visualize
ResultingMap ==
    /\ ogPc = "resulting_map"
    /\ calls' = Append(calls, "optimizer_to_map_chi2(optimized_graph)")
    /\ ogResult' = [ogResult EXCEPT !.resulting_map = passes]
    /\ ogPc' = IF visualize THEN "plot" ELSE "return"
    /\ UNCHANGED <<obs_chi2_filter, visualize, passes, passChi2, opt_chi2,
                   estimatesOf, notOptimize>>

\* lines 494-509: the plots
Plot ==
    /\ ogPc = "plot"
    /\ calls' = Append(calls, "plot_optimization_result")
    /\ ogPc' = "return"
    /\ UNCHANGED <<obs_chi2_filter, visualize, passes, passChi2, opt_chi2,
                   estimatesOf, ogResult, notOptimize>>

\* line 510: return opt_chi2, resulting_map, prior_map
OptimizeReturn ==
    /\ ogPc = "return"
    /\ ogResult' = [ogResult EXCEPT !.opt_chi2 = opt_chi2]
    /\ ogPc' = "returned"
    /\ UNCHANGED <<obs_chi2_filter, visualize, calls, passes, passChi2,
                   opt_chi2, estimatesOf, notOptimize>>

NextOptimize ==
    \/ SetWeights
    \/ UpdateEdgeInformation
    \/ GenerateUnoptimizedGraph
    \/ \E c \in 0..MaxChi2 : OptimizeGraph(c)
    \/ FilterOutHighChi2ObservationEdges
    \/ \E c \in 0..MaxChi2 : Reoptimize(c)
    \/ UpdateVerticesEstimates
    \/ PriorMap
    \/ ResultingMap
    \/ Plot
    \/ OptimizeReturn

SpecOptimize == InitOptimize /\ [][NextOptimize]_vars

\* the calls of a run of optimize_graph in the order the claim gives
OrderedSteps ==
    <<"set_weights", "update_edge_information", "generate_unoptimized_graph",
      "optimize_graph">>
    \o (IF obs_chi2_filter > 0
        THEN <<"filter_out_high_chi2_observation_edges", "optimize_graph">>
        ELSE << >>)
    \o <<"update_vertices_estimates",
         "optimizer_to_map_chi2(unoptimized_graph)",
         "optimizer_to_map_chi2(optimized_graph)">>
    \o (IF visualize THEN <<"plot_optimization_result">> ELSE << >>)

\* C22: optimize_graph sets the weights, updates the edge information,
\* generates the solver graph and optimizes; filters and re-optimizes once
\* exactly when obs_chi2_filter > 0; then writes the estimates back, and only
\* then extracts the result maps of the unoptimized and the optimized state.
C22_OptimizeStepOrder ==
    /\ Len(calls) <= Len(OrderedSteps)
    /\ calls = SubSeq(OrderedSteps, 1, Len(calls))
    /\ ogPc = "returned" =>
          /\ calls = OrderedSteps
          /\ estimatesOf = passes
          /\ ogResult.resulting_map = passes
          /\ ogResult.prior_map = 0

\* a run with filtering and plots has returned
C22_Witness ==
    /\ ogPc = "returned"
    /\ obs_chi2_filter > 0
    /\ passes = 2
    /\ visualize

\* C27: the chi2 that optimize_graph returns is the chi2 of the pass whose
\* solver state the returned result map was extracted from: that of the
\* re-optimization when the graph was filtered.
C27_ReturnedChi2OfFinalPass ==
    ogPc = "returned" => ogResult.opt_chi2 = passChi2[ogResult.resulting_map]

(***************************************************************************)
(* Properties of the uids as_graph allocates                               *)
(***************************************************************************)

\* the tag ids and the waypoint names of the sightings, in input order
TagIdsInOrder == [k \in DOMAIN tag_data |-> tag_data[k].tag_id]
NamesInOrder == [k \in DOMAIN location_data |-> location_data[k].name]

\* the rank (from 0) of x among the distinct values of sq, in order of first
\* appearance
FirstAppearanceRank(sq, x) ==
    LET first == CHOOSE k \in DOMAIN sq :
                     sq[k] = x /\ \A j \in 1..(k - 1) : sq[j] # x
    IN Cardinality({sq[j] : j \in 1..(first - 1)})

\* the tag id of the sighting a TAG vertex was made from
TagIdOfVertex(u) == tag_data[G.vertices[u].estimate.sighting + 1].tag_id

\* C23: with T distinct tags and W distinct waypoint names, the tags get
\* the uids 0..T-1 and the waypoints T..T+W-1, each in order of first
\* appearance in the input; the i-th frame's ODOMETRY vertex gets uid
\* T+W+2i and its DUMMY vertex T+W+2i+1.
C23_UidAllocation ==
    Built =>
        LET T == Cardinality(SightedTags)
            W == Cardinality(SightedNames)
        IN /\ \A u \in VerticesOfMode("TAG") :
                 u = FirstAppearanceRank(TagIdsInOrder, TagIdOfVertex(u))
           /\ \A u \in VerticesOfMode("WAYPOINT") :
                 u = T + FirstAppearanceRank(NamesInOrder, G.vertices[u].name)
           /\ \A i \in 0..(NumPoses - 1) :
                 /\ OdomOfPose(i) = {T + W + 2 * i}
                 /\ ModeOf(T + W + 2 * i + 1) = "DUMMY"
                 /\ G.vertices[T + W + 2 * i + 1].estimate.pose = i

(***************************************************************************)
(* Properties of the transfer of estimates and of the comparison loop      *)
(***************************************************************************)

\* the step that transfers the estimates, and the step that optimizes g2sg
TransferStep == cmpPc = "transfer" /\ cmpPc' # cmpPc
OptimizeG2Step == cmpPc = "optimize_g2" /\ cmpPc' # cmpPc

\* g1sg holds the estimates of its optimization with the current weights
G1Optimized ==
    \A t \in g1sg.tags : g1sg.est[t] = OptimizedEstimate(iter_weights)

IterationStarts == entry = "compare_weights" /\ cmpPc = "optimize_g1"

\* C28: at the start of every iteration of the loop of compare_weights the
\* estimates of g1sg and g2sg are those the partition produced, whatever
\* weight sets were evaluated before.
C28_IterationsStartFromPartition ==
    IterationStarts =>
        /\ \A t \in g1sg.tags : g1sg.est[t] = BuiltEstimate
        /\ \A t \in g2sg.tags : g2sg.est[t] = BuiltEstimate

(***************************************************************************)
(* Properties of the grid a sweep enumerates                               *)
(***************************************************************************)

\* the points of the grid: the tuples of `dimensions` values of sweep
Grid == [1..dimensions -> {sweep[i] : i \in DOMAIN sweep}]

\* a comes before b in lexicographic order
LexLess(a, b) ==
    \E k \in DOMAIN a :
        /\ a[k] < b[k]
        /\ \A j \in 1..(k - 1) : a[j] = b[j]

\* the metric function has been invoked once for each grid point, in
\* lexicographic order, and one metric was recorded for each
SweptOnce ==
    /\ Len(invoked) = Pow(Len(sweep), dimensions)
    /\ \A point \in Grid :
          Cardinality({p \in DOMAIN invoked : invoked[p] = point}) = 1
    /\ \A p, q \in DOMAIN invoked : p < q => LexLess(invoked[p], invoked[q])
    /\ Len(metrics) = Len(invoked)

\* C25: for a sweep of n values and d >= 1 dimensions, _sweep_weights comes
\* to an end, and when it returns it has invoked the metric function n^d
\* times, once for each point of the grid in lexicographic order, and
\* returns one metric for each grid point.
C25_SweepEnumeratesGrid ==
    /\ [](sweepPc = "returned" => SweptOnce)
    /\ <>(sweepPc \in {"returned", "raised"})

\* a sweep over a grid of two dimensions and two values has returned
C25_Witness ==
    /\ sweepPc = "returned"
    /\ dimensions = 2
    /\ Len(sweep) = 2
    /\ Len(invoked) = 4

(***************************************************************************)
(* The watchdog timers of one firebase_listen call                         *)
(***************************************************************************)

\* the timers that are started and neither cancelled nor fired: those still
\* waiting, and those past their wait on which cancel() has not been called
StartedNotCancelledNorFired ==
    {i \in DOMAIN timers :
        \/ timers[i].st = "waiting"
        \/ timers[i].st = "firing" /\ ~CancelledByArrival(i)}

ProcessMapsModules == {"graph_manager", "GraphManager"}

\* an empty and a non-empty pattern
Patterns == {"", "*"}

\* what the pattern can match in the cache: find_maps of the cache manager
\* returns maps only, glob.glob returns the paths of files and directories
Matches(impl) ==
    IF impl = "GraphManager" THEN {"map", "dir"} ELSE {"map"}

InitProcess ==
    /\ ListenOff
    /\ BuildOff
    /\ CompareOff
    /\ MapOff
    /\ WeightsOff
    /\ SweepOff
    /\ SumOff
    /\ OptimizeOff
    /\ GenerateOff
    /\ pmImpl \in ProcessMapsModules
    /\ pattern \in Patterns
    /\ \E n \in 0..MaxMatches : matching_maps \in [1..n -> Matches(pmImpl)]
    /\ compare \in BOOLEAN
    /\ pmPc = "called"
    /\ pmIdx = 0
    /\ handled = << >>

\* graph_manager.py lines 171-179, GraphManager.py lines 178-187: return on
\* an empty pattern, look the pattern up, return when nothing matches
ProcessMaps ==
    /\ pmPc = "called"
    /\ IF pattern = "" \/ Len(matching_maps) = 0
       THEN pmPc' = "returned" /\ pmIdx' = pmIdx
       ELSE pmPc' = "loop" /\ pmIdx' = 1
    /\ UNCHANGED <<pmImpl, pattern, matching_maps, compare, handled,
                   notProcess>>

\* GraphManager.py lines 190-191: a directory among the matches is ignored
SkipDirectory ==
    /\ pmPc = "loop"
    /\ pmIdx <= Len(matching_maps)
    /\ matching_maps[pmIdx] = "dir"
    /\ pmIdx' = pmIdx + 1
    /\ UNCHANGED <<pmImpl, pattern, matching_maps, compare, pmPc, handled,
                   notProcess>>

\* the statement after the call of compare_weights: graph_manager.py line
\* 185 returns from process_maps, in GraphManager.py (line 208) the loop
\* goes on
AfterCompareWeights(impl) ==
    IF impl = "graph_manager" THEN "returned" ELSE "loop"

\* graph_manager.py lines 181-185, GraphManager.py lines 205-208: with
\* compare the map is given to compare_weights
CompareWeights ==
    /\ pmPc = "loop"
    /\ pmIdx <= Len(matching_maps)
    /\ matching_maps[pmIdx] = "map"
    /\ compare
    /\ handled' = Append(handled, <<pmIdx, "compare_weights">>)
    /\ pmPc' = AfterCompareWeights(pmImpl)
    /\ pmIdx' = pmIdx + 1
    /\ UNCHANGED <<pmImpl, pattern, matching_maps, compare, notProcess>>

\* graph_manager.py lines 186-189: process_map; GraphManager.py lines
\* 209-233: as_graph, _optimize_graph, upload and _cache_map
ProcessMap ==
    /\ pmPc = "loop"
    /\ pmIdx <= Len(matching_maps)
    /\ matching_maps[pmIdx] = "map"
    /\ ~compare
    /\ handled' = Append(handled, <<pmIdx, "process_map">>)
    /\ pmIdx' = pmIdx + 1
    /\ UNCHANGED <<pmImpl, pattern, matching_maps, compare, pmPc,
                   notProcess>>

\* the loop over matching_maps has no match left
ProcessMapsReturn ==
    /\ pmPc = "loop"
    /\ pmIdx > Len(matching_maps)
    /\ pmPc' = "returned"
    /\ UNCHANGED <<pmImpl, pattern, matching_maps, compare, pmIdx, handled,
                   notProcess>>

NextProcess ==
    \/ ProcessMaps
    \/ SkipDirectory
    \/ CompareWeights
    \/ ProcessMap
    \/ ProcessMapsReturn

SpecProcess == InitProcess /\ [][NextProcess]_vars

\* how many times match i was handled
TimesHandled(i) == Cardinality({h \in DOMAIN handled : handled[h][1] = i})

\* C29: process_maps handles every cached map matching a non-empty pattern
\* exactly once, whether compare is true or false; with an empty pattern or
\* no match no map is processed.
C29_EveryMatchHandledOnce ==
    pmPc = "returned" =>
        IF pattern = ""
        THEN handled = << >>
        ELSE \A i \in DOMAIN matching_maps :
                matching_maps[i] = "map" => TimesHandled(i) = 1

(***************************************************************************)
(* GraphGenerator.__init__: src/map_processing/graph_generator.py          *)
(* lines 139-151 and 245-247                                               *)
(***************************************************************************)

\* the tag_size arguments: powers of two, whose halves and products are
\* exact in floating point
TagSizes == {1, 2, 4}

\* a *= b on the first three rows of the corner array
RatTimes(a, b) == Rat(a[1] * b[1], a[2] * b[2])

InitGenerate ==
    /\ ListenOff
    /\ BuildOff
    /\ CompareOff
    /\ MapOff
    /\ WeightsOff
    /\ SweepOff
    /\ SumOff
    /\ OptimizeOff
    /\ ProcessOff
    /\ TAG_CORNERS_SIZE_2 = Rat(1, 1)
    /\ generators = << >>

\* lines 245-247: _tag_corners_in_tag is bound to the array that is the
\* class attribute and that array is scaled in place by tag_size / 2;
\* _tag_corners_for_pnp is a new array, the product of the other class
\* attribute and tag_size / 2
GraphGeneratorInit(tag_size) ==
    /\ Len(generators) < MaxInstances
    /\ TAG_CORNERS_SIZE_2' = RatTimes(TAG_CORNERS_SIZE_2, Rat(tag_size, 2))
    /\ generators' = Append(generators,
           [tag_size |-> tag_size,
            _tag_corners_in_tag |-> "TAG_CORNERS_SIZE_2",
            _tag_corners_for_pnp |-> RatTimes(Rat(1, 1), Rat(tag_size, 2))])
    /\ UNCHANGED notGenerate

NextGenerate == \E tag_size \in TagSizes : GraphGeneratorInit(tag_size)

SpecGenerate == InitGenerate /\ [][NextGenerate]_vars

\* the array self._tag_corners_in_tag of an instance refers to
TagCornersInTag(g) ==
    IF g._tag_corners_in_tag = "TAG_CORNERS_SIZE_2"
    THEN TAG_CORNERS_SIZE_2
    ELSE g._tag_corners_in_tag

\* C30: constructing a GraphGenerator leaves the class attribute
\* TAG_CORNERS_SIZE_2 unchanged (corners at +-1), and an instance built with
\* tag_size s has its tag corners at +-s/2 whatever was constructed before.
C30_ConstructionLeavesClassCorners ==
    /\ TAG_CORNERS_SIZE_2 = Rat(1, 1)
    /\ \A i \in DOMAIN generators :
          TagCornersInTag(generators[i]) = Rat(generators[i].tag_size, 2)

====
